---- MODULE Spec2Model ----
(***************************************************************************)
(* Verification model of the scientific-method-framework core:             *)
(*   - QuantumScientificReasoner   (src/core/quantum.py)                   *)
(*   - ScientificEcosystem         (src/core/ecosystem.py)                 *)
(*   - DeepScientificAgent cycle   (src/core/agent.py)                     *)
(*   - InterpretiveHorizon         (src/core/hermeneutics.py)              *)
(* Three specifications share the module: SpecQ (reasoner), SpecEco        *)
(* (ecosystem generations) and SpecH (horizon fusion).  Each leaves the    *)
(* variables of the other two subsystems unchanged.                        *)
(***************************************************************************)
EXTENDS Integers, Sequences, FiniteSets, TLC

VARIABLES
    \* ---- QuantumScientificReasoner (quantum.py:54-58)
    hypothesis_superpositions, \* id -> [prob, links]; prob = |amplitude|^2
    entanglement_network,      \* [nodes, edges]: nx.Graph with strength attribute
    decoherence_history,       \* audit records of apply_evidence
    interference_patterns,     \* "<id1>_<id2>" -> number of visibilities appended
    qlast,                     \* the reasoner call that produced this state
    \* ---- ScientificEcosystem (ecosystem.py:89-100)
    agents,                    \* ordered dict agent_id -> agent, as a sequence
    heap,                      \* Hypothesis objects by identity
    communication_network,     \* edges of the influence DiGraph: <<u, v>> -> weight (tenths)
    paradigm_ecology,          \* paradigm -> adherent count
    diversity_history, progress_history, convergence_history,
    pc, gen, generations,      \* position inside run_ecosystem_evolution
    tasks, results,            \* research tasks of the generation and their outcomes
    round,                     \* what the last evolutionary-pressure round did
    added,                     \* number of add_agent calls so far
    \* ---- InterpretiveHorizon (hermeneutics.py:8-15)
    horizons,                  \* InterpretiveHorizon objects by identity
    hlast,                     \* the last fuse_with call
    \* ---- one DeepScientificAgent (agent.py:23-58, scientific_agent.py:84-96)
    agent,                     \* active_paradigms and the three tunable parameters
    alast,                     \* the last call on the agent
    \* ---- one HermeneuticScientificInterpreter (hermeneutics.py:96-106)
    interpreter,               \* current_horizon and hermeneutic_circles
    ilast,                     \* the last call on the interpreter
    \* ---- KnowledgeMarket (ecosystem.py:22-27)
    market,                    \* market_sentiment and trading_history
    mlast,                     \* the last call on the market
    \* ---- MerkleLedger (vsa/provenance/ledger.py:15-32)
    ledger,                    \* the rows of table blocks, by ascending id
    llast,                     \* the last call on the ledger and what it returned
    \* ---- calls of functions that read no state but their arguments
    call                       \* the function, its arguments and its result

qvars == <<hypothesis_superpositions, entanglement_network, decoherence_history,
           interference_patterns, qlast>>
evars == <<agents, heap, communication_network, paradigm_ecology, diversity_history,
           progress_history, convergence_history, pc, gen, generations, tasks,
           results, round, added>>
hvars == <<horizons, hlast>>
avars == <<agent, alast>>
ivars == <<interpreter, ilast>>
mvars == <<market, mlast>>
lvars == <<ledger, llast>>
fvars == <<call>>
vars == <<qvars, evars, hvars, avars, ivars, mvars, lvars, fvars>>

\* what a step of one subsystem leaves alone
otherThanQ == <<evars, hvars, avars, ivars, mvars, lvars, fvars>>
otherThanE == <<qvars, hvars, avars, ivars, mvars, lvars, fvars>>
otherThanH == <<qvars, evars, avars, ivars, mvars, lvars, fvars>>
otherThanA == <<qvars, evars, hvars, ivars, mvars, lvars, fvars>>
otherThanI == <<qvars, evars, hvars, avars, mvars, lvars, fvars>>
otherThanM == <<qvars, evars, hvars, avars, ivars, lvars, fvars>>
otherThanL == <<qvars, evars, hvars, avars, ivars, mvars, fvars>>
otherThanF == <<qvars, evars, hvars, avars, ivars, mvars, lvars>>

(***************************************************************************)
(* Exact rational arithmetic: a rational is a reduced pair <<n, d>>, d > 0 *)
(***************************************************************************)
Abs(n) == IF n < 0 THEN -n ELSE n

RECURSIVE GCD(_, _)
GCD(a, b) == IF b = 0 THEN a ELSE GCD(b, a % b)

Rat(n, d) ==
    LET g == GCD(Abs(n), Abs(d))
        s == IF d < 0 THEN -1 ELSE 1
    IN  IF n = 0 THEN <<0, 1>> ELSE <<(s * n) \div g, (s * d) \div g>>

\* cross-cancelled before multiplying, to keep the intermediate products small
RMul(x, y) ==
    LET g1 == GCD(Abs(x[1]), y[2])
        g2 == GCD(Abs(y[1]), x[2])
    IN  IF x[1] = 0 \/ y[1] = 0 THEN <<0, 1>>
        ELSE Rat((x[1] \div g1) * (y[1] \div g2), (x[2] \div g2) * (y[2] \div g1))
RAdd(x, y) ==
    LET g == GCD(x[2], y[2])
    IN  Rat(x[1] * (y[2] \div g) + y[1] * (x[2] \div g), (x[2] \div g) * y[2])
RDiv(x, y) == RMul(x, Rat(y[2], y[1]))
RLess(x, y) == x[1] * y[2] < y[1] * x[2]
RZero == <<0, 1>>
ROne == <<1, 1>>

\* the sum of s[lo..hi], halving the range to keep the evaluation shallow
RECURSIVE RSumRange(_, _, _)
RSumRange(s, lo, hi) ==
    IF lo > hi THEN RZero
    ELSE IF lo = hi THEN s[lo]
    ELSE LET mid == (lo + hi) \div 2
         IN  RAdd(RSumRange(s, lo, mid), RSumRange(s, mid + 1, hi))

RSumSeq(s) == RSumRange(s, 1, Len(s))

RECURSIVE SetToSeq(_)
SetToSeq(S) == IF S = {} THEN <<>>
               ELSE LET x == CHOOSE y \in S : TRUE IN <<x>> \o SetToSeq(S \ {x})

\* a sequence given by a rule, with its elements computed once
AsList(s) == SubSeq(s, 1, Len(s))

Range(s) == {s[i] : i \in DOMAIN s}

(***************************************************************************)
(* QuantumScientificReasoner (src/core/quantum.py)                         *)
(*                                                                         *)
(* An amplitude is a complex number.  Every operation of the reasoner      *)
(* either multiplies it by a real factor (apply_evidence, normalisation)   *)
(* or by a unit complex number exp(1j*x) (_update_entangled_amplitudes),   *)
(* so the squared magnitude probability() evolves on its own: the state    *)
(* keeps prob = |amplitude|^2 as an exact rational.                        *)
(***************************************************************************)
MaxHyp == 2         \* hypothesis ids offered to the reasoner
MaxEvidence == 1    \* apply_evidence calls that reach a registered hypothesis
MaxLinks == 2       \* entries of one state's entanglement_links list
MaxPatterns == 1    \* visibilities appended to interference_patterns

HypIds == 1..MaxHyp

\* evidence_strength after quantum.py:121-125: a numeric strength or an Enum
\* value / 3.0; the strongest confirming and disconfirming values and zero
EvidenceStrengths == {<<1, 1>>, <<-1, 1>>, <<0, 1>>}
\* entanglement_strength: the 0.5 default and the largest value
EntanglementStrengths == {<<1, 2>>, <<1, 1>>}

Registered == DOMAIN hypothesis_superpositions

probability(h) == hypothesis_superpositions[h].prob

TotalOf(sup) == RSumSeq([i \in 1..Cardinality(DOMAIN sup) |->
                           sup[SetToSeq(DOMAIN sup)[i]].prob])

\* quantum.py:63-69: a new state under the id, replacing any earlier one
WithSuperposition(sup, h) ==
    [x \in DOMAIN sup \cup {h} |->
        IF x = h THEN [prob |-> Rat(1, 2), links |-> <<>>] ELSE sup[x]]

\* quantum.py:60-74
add_hypothesis_superposition(h) ==
    /\ hypothesis_superpositions' = WithSuperposition(hypothesis_superpositions, h)
    /\ entanglement_network' =
         [entanglement_network EXCEPT !.nodes = @ \cup {h}]
    /\ qlast' = [op |-> "add_hypothesis_superposition", similarity |-> RZero, hit |-> TRUE]
    /\ UNCHANGED <<decoherence_history, interference_patterns>>
    /\ UNCHANGED otherThanQ

\* quantum.py:97-107: both factors have modulus 1
UpdateEntangledProb(p) == p

\* the two appends of quantum.py:86-87 (state1 and state2 are one object when
\* the ids are equal)
LinksAfterEntangle(sup, a, b) ==
    IF a = b
    THEN [sup EXCEPT ![a].links = @ \o <<b, a>>]
    ELSE [sup EXCEPT ![a].links = Append(@, b), ![b].links = Append(@, a)]

\* a guard that lets a call through when only one of the ids is known
EitherRegistered(sup, a, b) == a \in DOMAIN sup \/ b \in DOMAIN sup

\* quantum.py:79-80 and 159-160: both ids are keys of hypothesis_superpositions
BothRegistered(sup, a, b) == a \in DOMAIN sup /\ b \in DOMAIN sup

\* quantum.py:76-95
entangle_hypotheses(a, b, s) ==
    /\ qlast' = [op |-> "entangle_hypotheses", similarity |-> RZero,
                 hit |-> (a \in Registered /\ b \in Registered)]
    /\ UNCHANGED <<decoherence_history, interference_patterns>>
    /\ UNCHANGED otherThanQ
    /\ IF BothRegistered(hypothesis_superpositions, a, b)
       THEN /\ \A x \in Registered :
                  Len(LinksAfterEntangle(hypothesis_superpositions, a, b)[x].links) <= MaxLinks
            /\ hypothesis_superpositions' =
                 [x \in Registered |->
                    [LinksAfterEntangle(hypothesis_superpositions, a, b)[x]
                       EXCEPT !.prob = UpdateEntangledProb(@)]]
            /\ entanglement_network' =
                 [nodes |-> entanglement_network.nodes \cup {a, b},
                  edges |-> [e \in DOMAIN entanglement_network.edges \cup {{a, b}} |->
                               IF e = {a, b} THEN s ELSE entanglement_network.edges[e]]]
       ELSE UNCHANGED <<hypothesis_superpositions, entanglement_network>>

\* quantum.py:128-135: the factor applied to the target amplitude
EvidenceFactor(s) ==
    IF RLess(RZero, s) THEN RAdd(ROne, RMul(s, Rat(1, 2)))
    ELSE RAdd(ROne, RMul(Rat(Abs(s[1]), s[2]), Rat(-3, 10)))

\* quantum.py:155: the factor applied to each entangled neighbour
NeighbourFactor(s) == RAdd(ROne, RMul(s, Rat(1, 5)))

Square(x) == RMul(x, x)

\* quantum.py:237-244
normalize_superposition(sup) ==
    LET total == TotalOf(sup)
    IN  IF RLess(RZero, total)
        THEN [x \in DOMAIN sup |-> [sup[x] EXCEPT !.prob = RDiv(@, total)]]
        ELSE sup

\* quantum.py:150-155: one multiplication per entry of entanglement_links
RECURSIVE Propagate(_, _, _)
Propagate(sup, links, s) ==
    IF links = <<>> THEN sup
    ELSE LET e == Head(links)
             nxt == IF e \in DOMAIN sup
                    THEN [sup EXCEPT ![e].prob = RMul(@, Square(NeighbourFactor(s)))]
                    ELSE sup
         IN  Propagate(nxt, Tail(links), s)

\* quantum.py:109-155
apply_evidence(h, s) ==
    /\ qlast' = [op |-> "apply_evidence", similarity |-> RZero, hit |-> h \in Registered]
    /\ UNCHANGED <<entanglement_network, interference_patterns>>
    /\ UNCHANGED otherThanQ
    /\ IF h \notin Registered
       THEN UNCHANGED <<hypothesis_superpositions, decoherence_history>>
       ELSE /\ Len(decoherence_history) < MaxEvidence
            /\ LET scaled == [hypothesis_superpositions EXCEPT
                                ![h].prob = RMul(@, Square(EvidenceFactor(s)))]
                   normed == normalize_superposition(scaled)
               IN  /\ decoherence_history' = Append(decoherence_history,
                          [hypothesis_id |-> h,
                           evidence_id |-> Len(decoherence_history) + 1,
                           pre_amplitude |-> normed[h].prob,
                           evidence_strength |-> s])
                   /\ hypothesis_superpositions' = Propagate(normed, normed[h].links, s)

\* quantum.py:180: the 'entangled' field of compute_interference
InterferenceEntangled(a, b) ==
    \E i \in DOMAIN hypothesis_superpositions[a].links :
        hypothesis_superpositions[a].links[i] = b

\* quantum.py:184-187: the list under the key is created when missing and
\* one visibility is appended to it
PatternsAfter(pats, a, b) ==
    [k \in DOMAIN pats \cup {<<a, b>>} |->
        IF k = <<a, b>> THEN (IF k \in DOMAIN pats THEN pats[k] ELSE 0) + 1
        ELSE pats[k]]

RECURSIVE SumCounts(_)
SumCounts(pats) ==
    IF DOMAIN pats = {} THEN 0
    ELSE LET k == CHOOSE x \in DOMAIN pats : TRUE
         IN  pats[k] + SumCounts([x \in DOMAIN pats \ {k} |-> pats[x]])

\* quantum.py:157-189: returns {} for an unknown id; otherwise computes the
\* interference dict and appends its visibility to interference_patterns
compute_interference(a, b) ==
    /\ qlast' = [op |-> "compute_interference", similarity |-> RZero,
                 hit |-> (a \in Registered /\ b \in Registered)]
    /\ UNCHANGED <<hypothesis_superpositions, entanglement_network, decoherence_history>>
    /\ UNCHANGED otherThanQ
    /\ IF BothRegistered(hypothesis_superpositions, a, b)
       THEN /\ SumCounts(interference_patterns) < MaxPatterns
            /\ interference_patterns' = PatternsAfter(interference_patterns, a, b)
       ELSE UNCHANGED interference_patterns

\* quantum.py:191-235: returns [] for an unknown id, otherwise a list of
\* n_predictions dicts; no field of the reasoner is written
generate_quantum_predictions(h) ==
    /\ qlast' = [op |-> "generate_quantum_predictions", similarity |-> RZero, hit |-> h \in Registered]
    /\ UNCHANGED <<hypothesis_superpositions, entanglement_network, decoherence_history,
                   interference_patterns>>
    /\ UNCHANGED otherThanQ

\* the statements of the two active hypotheses of an agent, as word lists
\* (statement.lower().split())
Statements2 ==
    {<<"a", "b", "c", "d">>, <<"a", "b", "c", "e">>, <<"a", "b", "c">>}

\* scientific_agent.py:117-126: Jaccard similarity of the two word sets
hypothesis_similarity(s1, s2) ==
    LET words1 == Range(s1)
        words2 == Range(s2)
    IN  IF words1 = {} \/ words2 = {} THEN RZero
        ELSE Rat(Cardinality(words1 \cap words2), Cardinality(words1 \cup words2))

\* agent.py:124-161 for an agent whose active hypotheses are the two with
\* ids 1 and 2: both are registered anew (their predictions are generated
\* and kept by the agent), and a similar pair is entangled with the
\* similarity as strength and its interference computed
quantum_hypothesis_generation(s1, s2) ==
    LET similarity == hypothesis_similarity(s1, s2)
        fresh == WithSuperposition(WithSuperposition(hypothesis_superpositions, 1), 2)
        nodes == entanglement_network.nodes \cup {1, 2}
    IN  /\ qlast' = [op |-> "quantum_hypothesis_generation", similarity |-> similarity,
                     hit |-> TRUE]
        /\ UNCHANGED decoherence_history
        /\ UNCHANGED otherThanQ
        /\ IF RLess(Rat(6, 10), similarity)
           THEN /\ SumCounts(interference_patterns) < MaxPatterns
                /\ hypothesis_superpositions' =
                     [x \in DOMAIN fresh |->
                        [LinksAfterEntangle(fresh, 1, 2)[x]
                           EXCEPT !.prob = UpdateEntangledProb(@)]]
                /\ entanglement_network' =
                     [nodes |-> nodes,
                      edges |-> [e \in DOMAIN entanglement_network.edges \cup {{1, 2}} |->
                                   IF e = {1, 2} THEN similarity
                                   ELSE entanglement_network.edges[e]]]
                /\ interference_patterns' = PatternsAfter(interference_patterns, 1, 2)
           ELSE /\ hypothesis_superpositions' = fresh
                /\ entanglement_network' = [entanglement_network EXCEPT !.nodes = nodes]
                /\ UNCHANGED interference_patterns

QInit ==
    /\ hypothesis_superpositions = <<>>
    /\ entanglement_network = [nodes |-> {}, edges |-> <<>>]
    /\ decoherence_history = <<>>
    /\ interference_patterns = <<>>
    /\ qlast = [op |-> "init", similarity |-> RZero, hit |-> FALSE]

QNext ==
    \/ \E h \in HypIds : add_hypothesis_superposition(h)
    \/ \E a, b \in HypIds : \E s \in EntanglementStrengths : entangle_hypotheses(a, b, s)
    \/ \E h \in HypIds : \E s \in EvidenceStrengths : apply_evidence(h, s)
    \/ \E a, b \in HypIds : compute_interference(a, b)
    \/ \E h \in HypIds : generate_quantum_predictions(h)
    \/ \E s1, s2 \in Statements2 : quantum_hypothesis_generation(s1, s2)

(***************************************************************************)
(* ScientificParadigm (src/core/foundations.py:5-16) and the lenses an     *)
(* agent builds (src/core/agent.py:60-96)                                   *)
(***************************************************************************)
NumParadigms == 2   \* how many of the ten enum members the model draws from

AllParadigms == <<"BAYESIAN", "EMPIRICISM", "HERMENEUTIC", "FALSIFICATIONISM",
                  "COMPLEXITY", "RATIONALISM", "POSITIVISM", "KUHNIAN",
                  "LAKATOSIAN", "FEYERABEND">>

ScientificParadigm == {AllParadigms[i] : i \in 1..NumParadigms}

\* the keys _initialize_paradigm_lenses fills
paradigm_lenses == {"FALSIFICATIONISM", "BAYESIAN", "HERMENEUTIC", "COMPLEXITY"}

(***************************************************************************)
(* InterpretiveHorizon (src/core/hermeneutics.py:8-56)                     *)
(* horizons is the store of horizon objects; fuse_with allocates a new one *)
(***************************************************************************)
MaxHorizons == 4    \* horizon objects allocated
MaxFusionLen == 3   \* longest fusion_history built

\* agent.py:30-43: the horizon a DeepScientificAgent is constructed with
InitialHorizon(p) ==
    [pre_understandings |-> {<<p, "perspective">>, <<"Belief in systematic inquiry">>,
                             <<"Value empirical evidence">>},
     historical_consciousness |-> [origin |-> <<p, "tradition">>],
     tradition |-> p,
     fusion_history |-> <<>>,
     effective_history |-> [initial_horizon |-> TRUE]]

\* agent.py:573-579: the horizon built for a newly adopted paradigm; its
\* fusion_history is the current horizon's list
ShiftHorizon(cur, p) ==
    [pre_understandings |-> {<<"Now include", p, "perspective">>},
     historical_consciousness |-> [paradigm_shift |-> TRUE],
     tradition |-> p,
     fusion_history |-> cur.fusion_history,
     effective_history |-> [recent_shift |-> TRUE]]

\* hermeneutics.py:23-24: historical_consciousness.get("origin", "unknown")
Origin(h) ==
    IF "origin" \in DOMAIN h.historical_consciousness
    THEN h.historical_consciousness.origin
    ELSE <<"unknown">>

\* hermeneutics.py:19
FusedPreUnderstandings(x, y) == x.pre_understandings \cup y.pre_understandings

\* hermeneutics.py:30-35
FusionRecord(x, y) ==
    [horizon1 |-> x.tradition, horizon2 |-> y.tradition,
     pre_understanding_synthesis |-> Cardinality(FusedPreUnderstandings(x, y))]

\* hermeneutics.py:37
FusedHistory(x, y) == x.fusion_history \o y.fusion_history \o <<FusionRecord(x, y)>>

\* hermeneutics.py:48
DominantTradition(x, y) ==
    IF Len(x.fusion_history) > Len(y.fusion_history) THEN x.tradition ELSE y.tradition

\* hermeneutics.py:17-56: the horizon fuse_with returns
Fused(x, y) ==
    [pre_understandings |-> FusedPreUnderstandings(x, y),
     historical_consciousness |->
        [merged_from |-> <<Origin(x), Origin(y)>>,
         integrated_traditions |-> <<x.tradition, y.tradition>>],
     tradition |-> DominantTradition(x, y),
     fusion_history |-> FusedHistory(x, y),
     effective_history |-> [created_from_fusion |-> TRUE,
                            fusion_count |-> Len(FusedHistory(x, y)),
                            tradition_complexity |-> Cardinality({x.tradition, y.tradition})]]

\* the store after self.fuse_with(other): both operands as they were, and the
\* returned horizon as a new object
StoreInPlace(hs, a, b) ==
    Append([hs EXCEPT ![a].fusion_history = Append(@, FusionRecord(hs[a], hs[b]))],
           Fused(hs[a], hs[b]))

StoreAfterFuse(hs, a, b) == Append(hs, Fused(hs[a], hs[b]))

\* a caller constructs an agent (agent.py:29-44)
new_horizon(p) ==
    /\ UNCHANGED otherThanH
    /\ Len(horizons) < MaxHorizons
    /\ horizons' = Append(horizons, InitialHorizon(p))
    /\ hlast' = [op |-> "new", self |-> 0, other |-> 0, result |-> Len(horizons) + 1]

\* hermeneutics.py:17-56 on two horizons of the store
fuse_with(a, b) ==
    /\ UNCHANGED otherThanH
    /\ Len(horizons) < MaxHorizons
    /\ Len(horizons[a].fusion_history) + Len(horizons[b].fusion_history) + 1 <= MaxFusionLen
    /\ horizons' = StoreAfterFuse(horizons, a, b)
    /\ hlast' = [op |-> "fuse_with", self |-> a, other |-> b, result |-> Len(horizons) + 1]

\* agent.py:572-583: the horizon update of _consider_paradigm_shift
shift_horizon(a, p) ==
    /\ UNCHANGED otherThanH
    /\ Len(horizons) + 1 < MaxHorizons
    /\ 2 * Len(horizons[a].fusion_history) + 1 <= MaxFusionLen
    /\ LET withNew == Append(horizons, ShiftHorizon(horizons[a], p))
       IN  horizons' = StoreAfterFuse(withNew, a, Len(withNew))
    /\ hlast' = [op |-> "fuse_with", self |-> a, other |-> Len(horizons) + 1,
                 result |-> Len(horizons) + 2]

HInit ==
    /\ horizons = <<>>
    /\ hlast = [op |-> "init", self |-> 0, other |-> 0, result |-> 0]

HNext ==
    \/ \E p \in ScientificParadigm : new_horizon(p)
    \/ \E a, b \in DOMAIN horizons : fuse_with(a, b)
    \/ \E a \in DOMAIN horizons : \E p \in ScientificParadigm : shift_horizon(a, p)

(***************************************************************************)
(* ScientificEcosystem (src/core/ecosystem.py)                             *)
(*                                                                         *)
(* agents is the insertion-ordered dict agent_id -> agent, kept as the     *)
(* sequence of its values; each value carries its key (id) and the         *)
(* influence attribute of its node in communication_network.  An agent id  *)
(* is a sequence of numbers: <<n>> for add_agent's "<domain>_<n>" and      *)
(* parent_id \o <<t, n>> for "offspring_<parent_id>_<t>_<n>".  Hypothesis  *)
(* objects live in heap and are referred to by their index, so that two    *)
(* references to one object are visible as such.  The agents' tunable      *)
(* parameters, reasoners and experiment lists are not part of this state.  *)
(***************************************************************************)
MaxAdded == 9       \* add_agent calls before the run
MaxLateAdded == 1   \* add_agent calls after the run has returned
MaxFaulty == 2      \* of which agents built with a paradigm that has no lens
MaxGen == 2         \* largest generations argument of run_ecosystem_evolution

Iterations == 2             \* ecosystem.py:147  enhanced_research_cycle(iterations=2)
NumPhases == 7              \* agent.py:103-122  the seven awaits of one iteration
PopulationLimit == 10       \* ecosystem.py:400
TopInfluencers == 3         \* ecosystem.py:166
MaxInfluencees == 2         \* ecosystem.py:180
MaxTransferred == 2         \* ecosystem.py:200
MaxReproducing == 2         \* ecosystem.py:375
InheritWindow == 5          \* ecosystem.py:422
StatementWindow == 5        \* ecosystem.py:334

Supported == {"SUPPORTED", "WELL_SUPPORTED"}

\* natural logarithms of 1..20 to two decimals, times 100 (np.log, np.log1p)
LnTable == <<0, 69, 110, 139, 161, 179, 195, 208, 220, 230,
             240, 248, 256, 264, 271, 277, 283, 289, 294, 300>>

\* the agents a caller hands to add_agent: a DeepScientificAgent built for a
\* paradigm, with one hypothesis in its knowledge base and active list
AgentProfiles ==
    {[paradigm |-> "BAYESIAN", statement |-> "s1", confidence |-> <<7, 10>>,
      status |-> "SUPPORTED"],
     [paradigm |-> "EMPIRICISM", statement |-> "s2", confidence |-> <<1, 2>>,
      status |-> "PROPOSED"]}

AgentIds(as) == [i \in DOMAIN as |-> as[i].id]
IndexOf(as, id) == CHOOSE i \in DOMAIN as : as[i].id = id
HasAgent(as, id) == \E i \in DOMAIN as : as[i].id = id

\* self.agents[agent_id] = agent on an insertion-ordered dict
DictPut(as, a) ==
    IF HasAgent(as, a.id) THEN [as EXCEPT ![IndexOf(as, a.id)] = a] ELSE Append(as, a)

\* next(iter(agent.active_paradigms))
PrimaryParadigm(a) == CHOOSE p \in a.active_paradigms : TRUE

HasLenses(a) == a.active_paradigms \subseteq paradigm_lenses

EcologyGet(eco, p) == IF p \in DOMAIN eco THEN eco[p] ELSE 0

EcologyPut(eco, p, v) == [q \in DOMAIN eco \cup {p} |-> IF q = p THEN v ELSE eco[q]]

RECURSIVE EcologyAddAll(_, _)
EcologyAddAll(eco, ps) ==
    IF ps = {} THEN eco
    ELSE LET p == CHOOSE q \in ps : TRUE
         IN  EcologyAddAll(EcologyPut(eco, p, EcologyGet(eco, p) + 1), ps \ {p})

\* one id for every agent
SameAgentId(as) == <<0>>

\* ecosystem.py:104
NewAgentId(as) == <<Len(as)>>

\* ecosystem.py:102-117, called before a run or after it has returned
add_agent(prof) ==
    /\ \/ pc = "idle" /\ added < MaxAdded
       \/ pc = "done" /\ Len(agents) - round.after < MaxLateAdded
    /\ prof.paradigm \notin paradigm_lenses =>
         Cardinality({i \in DOMAIN agents : ~HasLenses(agents[i])}) < MaxFaulty
    /\ LET oid == Len(heap) + 1
           new_agent == [id |-> NewAgentId(agents),
                         active_paradigms |-> {prof.paradigm},
                         active_hypotheses |-> <<oid>>,
                         kb |-> {oid},
                         influence |-> ROne]
       IN  /\ heap' = Append(heap, [statement |-> prof.statement,
                                    confidence |-> prof.confidence,
                                    status |-> prof.status])
           /\ agents' = DictPut(agents, new_agent)
           /\ paradigm_ecology' = EcologyAddAll(paradigm_ecology, new_agent.active_paradigms)
    /\ added' = added + 1
    /\ UNCHANGED <<communication_network, diversity_history, progress_history,
                   convergence_history, pc, gen, generations, tasks, results, round>>
    /\ UNCHANGED otherThanE

\* ecosystem.py:121: the loop header of run_ecosystem_evolution
LoopHead(g, n) == IF g < n THEN "spawn" ELSE "done"

\* ecosystem.py:119-121: the call and the first test of the loop
run_ecosystem_evolution(n) ==
    /\ pc = "idle"
    /\ generations' = n
    /\ gen' = 0
    /\ pc' = LoopHead(0, n)
    /\ UNCHANGED <<agents, heap, communication_network, paradigm_ecology,
                   diversity_history, progress_history, convergence_history,
                   tasks, results, round, added>>
    /\ UNCHANGED otherThanE

(***************************************************************************)
(* The research phase.  asyncio.gather wraps each coroutine in a task; the *)
(* tasks run one after another in creation order, each to its end, because *)
(* no phase awaits anything that suspends.                                 *)
(***************************************************************************)
\* agent.py:171 and agent.py:452: self.paradigm_lenses[paradigm] raises
\* KeyError for an active paradigm that has no lens
PhaseRaises(a, ph) == ph \in {2, 5} /\ ~HasLenses(a)

\* agent.py:99-122: the awaits of the cycle in program order, as
\* <<iteration, phase>> pairs
CycleSteps(iters) ==
    [k \in 1..(iters * NumPhases) |->
       <<((k - 1) \div NumPhases) + 1, ((k - 1) % NumPhases) + 1>>]

\* agent.py:98-122: the awaits are entered in order until one raises (no
\* handler in the coroutine) or the loop ends
enhanced_research_cycle(a, iters) ==
    LET steps == CycleSteps(iters)
        raising == {k \in DOMAIN steps : PhaseRaises(a, steps[k][2])}
        first == CHOOSE k \in raising : \A j \in raising : k <= j
    IN  IF raising = {}
        THEN [outcome |-> "returned", phases |-> Len(steps), iterations |-> iters]
        ELSE [outcome |-> "raised", phases |-> first, iterations |-> steps[first][1] - 1]

\* ecosystem.py:150: return_exceptions=True
ReturnExceptionsOff == FALSE

ReturnExceptions == TRUE

\* ecosystem.py:150: gather resumes the caller once every task is done; an
\* exception reaches the caller only without return_exceptions
JoinFirstCompleted(ts, rs) ==
    IF Len(rs) >= 1 \/ Len(ts) = 0 THEN "exchange" ELSE "research"

Join(ts, rs) ==
    IF ~ReturnExceptions /\ \E i \in DOMAIN rs : rs[i].outcome = "raised" THEN "aborted"
    ELSE IF Len(rs) = Len(ts) THEN "exchange"
    ELSE "research"

\* ecosystem.py:145-148
spawn_research ==
    /\ pc = "spawn"
    /\ tasks' = AgentIds(agents)
    /\ results' = <<>>
    /\ pc' = Join(AgentIds(agents), <<>>)
    /\ UNCHANGED <<agents, heap, communication_network, paradigm_ecology,
                   diversity_history, progress_history, convergence_history,
                   gen, generations, round, added>>
    /\ UNCHANGED otherThanE

\* one task of ecosystem.py:147 running to its end
research_task ==
    /\ pc = "research"
    /\ Len(results) < Len(tasks)
    /\ LET id == tasks[Len(results) + 1]
           r == enhanced_research_cycle(agents[IndexOf(agents, id)], Iterations)
       IN  /\ results' = Append(results, [id |-> id, outcome |-> r.outcome,
                                          phases |-> r.phases, iterations |-> r.iterations])
           /\ pc' = Join(tasks, results')
    /\ UNCHANGED <<agents, heap, communication_network, paradigm_ecology,
                   diversity_history, progress_history, convergence_history,
                   gen, generations, tasks, round, added>>
    /\ UNCHANGED otherThanE

(***************************************************************************)
(* Helpers shared by the phases that follow the research phase             *)
(***************************************************************************)
Min(a, b) == IF a < b THEN a ELSE b
Max(a, b) == IF a > b THEN a ELSE b
Take(s, k) == SubSeq(s, 1, Min(k, Len(s)))

\* the hypotheses of a list whose status is SUPPORTED or WELL_SUPPORTED
WellSupported(hs, hp) == SelectSeq(hs, LAMBDA h : hp[h].status \in Supported)

\* successful / total if total > 0 else 0
SuccessRate(a, hp) ==
    IF Len(a.active_hypotheses) = 0 THEN RZero
    ELSE Rat(Len(WellSupported(a.active_hypotheses, hp)), Len(a.active_hypotheses))

\* list.sort(key=..., reverse=True) on <<id, key>> pairs: descending and
\* stable, so equal keys keep their order
SortDesc(s) ==
    LET t == AsList(s)
        place == AsList([k \in DOMAIN t |->
                           1 + Cardinality({j \in DOMAIN t : RLess(t[k][2], t[j][2])})
                             + Cardinality({j \in 1..(k - 1) : t[j][2] = t[k][2]})])
    IN  AsList([r \in DOMAIN t |-> t[CHOOSE k \in DOMAIN t : place[k] = r]])

\* the concatenation of ss[lo..hi], halving the range
RECURSIVE FlattenRange(_, _, _)
FlattenRange(ss, lo, hi) ==
    IF lo > hi THEN <<>>
    ELSE IF lo = hi THEN ss[lo]
    ELSE LET mid == (lo + hi) \div 2
         IN  FlattenRange(ss, lo, mid) \o FlattenRange(ss, mid + 1, hi)

Flatten(ss) == FlattenRange(ss, 1, Len(ss))

Filter(s, keep) == SelectSeq(s, LAMBDA x : x \in keep)

(***************************************************************************)
(* Knowledge exchange (ecosystem.py:163-219, 482-506)                      *)
(***************************************************************************)
\* nx.degree_centrality on the DiGraph: (in-degree + out-degree) / (n - 1),
\* and 1 for every node of a graph with at most one node
DegreeCentrality(as, edges, id) ==
    IF Len(as) <= 1 THEN ROne
    ELSE Rat(Cardinality({e \in DOMAIN edges : e[1] = id})
             + Cardinality({e \in DOMAIN edges : e[2] = id}), Len(as) - 1)

\* ecosystem.py:482-506
get_high_influence_agents(as, edges, n) ==
    LET scored == [i \in DOMAIN as |->
                     <<as[i].id, RAdd(RMul(as[i].influence, Rat(7, 10)),
                                      RMul(DegreeCentrality(as, edges, as[i].id), Rat(3, 10)))>>]
        top == Take(SortDesc(scored), n)
    IN  [i \in DOMAIN top |-> top[i][1]]

\* ecosystem.py:174-180: the agents one influencer teaches
Influencees(as, influencer) ==
    LET infl == as[IndexOf(as, influencer)].influence
        lower == {as[i].id : i \in {j \in DOMAIN as : RLess(as[j].influence, infl)}}
    IN  Take(Filter(AgentIds(as), lower), MaxInfluencees)

\* the (influencer, influencee) pairs in the order ecosystem.py:168-183 visits them
TransferPlan(as, edges) ==
    LET top == get_high_influence_agents(as, edges, TopInfluencers)
    IN  Flatten([k \in DOMAIN top |->
                   [m \in DOMAIN Influencees(as, top[k]) |->
                      <<top[k], Influencees(as, top[k])[m]>>]])

\* ecosystem.py:202-213: the copy handed to the target
CopiedHypothesis(h) ==
    [statement |-> h.statement,
     confidence |-> RMul(h.confidence, Rat(4, 5)),
     status |-> "PROPOSED"]

\* ecosystem.py:192-219 on the pair (as, hp)
RECURSIVE CopyInto(_, _, _)
CopyInto(st, tgt, hs) ==
    IF hs = <<>> THEN st
    ELSE LET oid == Len(st.heap) + 1
             nxt == [agents |-> [st.agents EXCEPT ![tgt].active_hypotheses = Append(@, oid)],
                     heap |-> Append(st.heap, CopiedHypothesis(st.heap[Head(hs)]))]
         IN  CopyInto(nxt, tgt, Tail(hs))

transfer_knowledge(st, src, tgt) ==
    CopyInto(st, IndexOf(st.agents, tgt),
             Take(WellSupported(st.agents[IndexOf(st.agents, src)].active_hypotheses, st.heap),
                  MaxTransferred))

\* ecosystem.py:186-190: weights in tenths
EdgeAfterTransfer(edges, src, tgt) ==
    [e \in DOMAIN edges \cup {<<src, tgt>>} |->
        IF e = <<src, tgt>>
        THEN (IF e \in DOMAIN edges THEN edges[e] + 1 ELSE 5)
        ELSE edges[e]]

RECURSIVE Exchange(_, _)
Exchange(st, plan) ==
    IF plan = <<>> THEN st
    ELSE LET src == Head(plan)[1]
             tgt == Head(plan)[2]
             moved == transfer_knowledge([agents |-> st.agents, heap |-> st.heap], src, tgt)
         IN  Exchange([agents |-> moved.agents, heap |-> moved.heap,
                       edges |-> EdgeAfterTransfer(st.edges, src, tgt)], Tail(plan))

\* ecosystem.py:163-190
facilitate_knowledge_exchange ==
    /\ pc = "exchange"
    /\ LET st == Exchange([agents |-> agents, heap |-> heap, edges |-> communication_network],
                          TransferPlan(agents, communication_network))
       IN  /\ agents' = st.agents
           /\ heap' = st.heap
           /\ communication_network' = st.edges
    /\ pc' = "competition"
    /\ UNCHANGED <<paradigm_ecology, diversity_history, progress_history,
                   convergence_history, gen, generations, tasks, results, round, added>>
    /\ UNCHANGED otherThanE

(***************************************************************************)
(* Paradigm competition (ecosystem.py:221-280)                             *)
(***************************************************************************)
\* the agents whose success rate enters a paradigm's average
Scoring(as, p) ==
    {i \in DOMAIN as : p \in as[i].active_paradigms /\ Len(as[i].active_hypotheses) > 0}

Adherents(as, p) == Cardinality({i \in DOMAIN as : p \in as[i].active_paradigms})

\* ecosystem.py:275-278: avg_success * (1 + log1p(adherents) * 0.1)
FitnessOf(as, hp, p) ==
    LET idx == SetToSeq(Scoring(as, p))
        avg == RDiv(RSumSeq([k \in DOMAIN idx |-> SuccessRate(as[idx[k]], hp)]),
                    Rat(Len(idx), 1))
    IN  RMul(avg, Rat(1000 + LnTable[Adherents(as, p) + 1], 1000))

\* ecosystem.py:248-280: the keys of the returned dict
FitnessKeys(as, eco) == {p \in DOMAIN eco : Scoring(as, p) # {}}

FitnessGet(as, hp, eco, p) ==
    IF p \in FitnessKeys(as, eco) THEN FitnessOf(as, hp, p) ELSE RZero

\* ecosystem.py:228: a key of maximal fitness
BestParadigms(as, hp, eco) ==
    {p \in FitnessKeys(as, eco) :
        \A q \in FitnessKeys(as, eco) : ~RLess(FitnessOf(as, hp, p), FitnessOf(as, hp, q))}

\* ecosystem.py:236-239: the agents for which random() < switch_prob can hold
CanSwitch(as, hp, eco, best) ==
    {i \in DOMAIN as :
        /\ best # PrimaryParadigm(as[i])
        /\ RLess(RZero, RMul(RAdd(FitnessOf(as, hp, best),
                                  RMul(<<-1, 1>>, FitnessGet(as, hp, eco, PrimaryParadigm(as[i])))),
                             Rat(1, 2)))}

\* ecosystem.py:245-246 for the switching agents, in dict order
RECURSIVE EcologyAfterSwitches(_, _, _, _)
EcologyAfterSwitches(eco, as, S, best) ==
    IF as = <<>> THEN eco
    ELSE IF Head(as).id \in S
         THEN LET cur == PrimaryParadigm(Head(as))
                  dec == EcologyPut(eco, cur, Max(0, EcologyGet(eco, cur) - 1))
              IN  EcologyAfterSwitches(EcologyPut(dec, best, EcologyGet(dec, best) + 1),
                                       Tail(as), S, best)
         ELSE EcologyAfterSwitches(eco, Tail(as), S, best)

\* ecosystem.py:221-246
simulate_paradigm_competition ==
    /\ pc = "competition"
    /\ pc' = "adaptation"
    /\ IF FitnessKeys(agents, paradigm_ecology) = {}
       THEN UNCHANGED <<agents, paradigm_ecology>>
       ELSE \E best \in BestParadigms(agents, heap, paradigm_ecology) :
            \E S \in SUBSET CanSwitch(agents, heap, paradigm_ecology, best) :
               /\ agents' = [i \in DOMAIN agents |->
                               IF i \in S THEN [agents[i] EXCEPT !.active_paradigms = {best}]
                               ELSE agents[i]]
               /\ paradigm_ecology' =
                    EcologyAfterSwitches(paradigm_ecology, agents,
                                         {agents[i].id : i \in S}, best)
    /\ UNCHANGED <<heap, communication_network, diversity_history, progress_history,
                   convergence_history, gen, generations, tasks, results, round, added>>
    /\ UNCHANGED otherThanE

(***************************************************************************)
(* Ecosystem metrics (ecosystem.py:297-349)                                *)
(***************************************************************************)
RECURSIVE SumNat(_)
SumNat(s) == IF s = <<>> THEN 0 ELSE Head(s) + SumNat(Tail(s))

\* ecosystem.py:307-318: Shannon evenness of the adherent counts
Diversity(as, eco) ==
    LET keys == SetToSeq(DOMAIN eco)
        total == SumNat([k \in DOMAIN keys |-> eco[keys[k]]])
        weighted == SumNat([k \in DOMAIN keys |->
                              IF eco[keys[k]] > 0 THEN eco[keys[k]] * LnTable[eco[keys[k]]]
                              ELSE 0])
    IN  IF Len(as) > 0 /\ total > 0 /\ Len(keys) > 1
        THEN Rat(total * LnTable[total] - weighted, total * LnTable[Len(keys)])
        ELSE RZero

\* the agents whose hypotheses enter the progress metric
Contributors(as) == AgentIds(as)

\* ecosystem.py:320-327: mean confidence over the active hypotheses
ProgressOver(as, hp, ids) ==
    LET all == Flatten([i \in DOMAIN as |->
                          IF as[i].id \in Range(ids) THEN as[i].active_hypotheses ELSE <<>>])
    IN  IF all = <<>> THEN RZero
        ELSE RDiv(RSumSeq([k \in DOMAIN all |-> hp[all[k]].confidence]), Rat(Len(all), 1))

Progress(as, hp) == ProgressOver(as, hp, Contributors(as))

Statements(a, hp) ==
    {hp[Take(a.active_hypotheses, StatementWindow)[k]].statement :
        k \in DOMAIN Take(a.active_hypotheses, StatementWindow)}

\* ecosystem.py:329-347: mean Jaccard overlap of the agents' statement sets
ConvergenceOver(as, hp, ids) ==
    LET sel == Filter(AgentIds(as), Range(ids))
        sets == AsList([k \in DOMAIN sel |-> Statements(as[IndexOf(as, sel[k])], hp)])
        pairs == {pr \in (DOMAIN sets) \X (DOMAIN sets) :
                    pr[1] < pr[2] /\ sets[pr[1]] \cup sets[pr[2]] # {}}
        jaccard(i, j) == Rat(Cardinality(sets[i] \cap sets[j]),
                             Cardinality(sets[i] \cup sets[j]))
        row(i) == RSumSeq([j \in DOMAIN sets |->
                             IF <<i, j>> \in pairs THEN jaccard(i, j) ELSE RZero])
    IN  IF Len(as) > 1 /\ pairs # {}
        THEN RDiv(RSumSeq([i \in DOMAIN sets |-> row(i)]), Rat(Cardinality(pairs), 1))
        ELSE RZero

Convergence(as, hp) == ConvergenceOver(as, hp, Contributors(as))

\* ecosystem.py:297-349
calculate_ecosystem_performance(as, hp, eco) ==
    [diversity |-> Diversity(as, eco),
     progress |-> Progress(as, hp),
     convergence |-> Convergence(as, hp)]

\* ecosystem.py:137: if gen % 2 == 0
AfterAdaptation(g) == IF g % 2 = 0 THEN "pressure" ELSE "record"

\* ecosystem.py:282-295: the metrics are computed and the agents' tunable
\* parameters, which are outside this state, are adjusted
facilitate_agent_adaptation ==
    /\ pc = "adaptation"
    /\ pc' = AfterAdaptation(gen)
    /\ UNCHANGED <<agents, heap, communication_network, paradigm_ecology,
                   diversity_history, progress_history, convergence_history,
                   gen, generations, tasks, results, round, added>>
    /\ UNCHANGED otherThanE

\* ecosystem.py:463-470
record_ecosystem_state ==
    /\ pc = "record"
    /\ LET m == calculate_ecosystem_performance(agents, heap, paradigm_ecology)
       IN  /\ diversity_history' = Append(diversity_history, m.diversity)
           /\ progress_history' = Append(progress_history, m.progress)
           /\ convergence_history' = Append(convergence_history, m.convergence)
    /\ gen' = gen + 1
    /\ pc' = LoopHead(gen + 1, generations)
    /\ UNCHANGED <<agents, heap, communication_network, paradigm_ecology,
                   generations, tasks, results, round, added>>
    /\ UNCHANGED otherThanE

(***************************************************************************)
(* Evolutionary pressure (ecosystem.py:351-461)                            *)
(***************************************************************************)
\* ecosystem.py:364: success_rate * 0.7 + (influence / 10) * 0.3
AgentFitness(a, hp) ==
    RAdd(RMul(SuccessRate(a, hp), Rat(7, 10)), RMul(RDiv(a.influence, Rat(10, 1)), Rat(3, 10)))

\* ecosystem.py:354-368
Ranking(as, hp) == SortDesc([i \in DOMAIN as |-> <<as[i].id, AgentFitness(as[i], hp)>>])

\* ecosystem.py:371-372: int(n * 0.3) and int(n * 0.7)
ReproductionCutoff(n) == (3 * n) \div 10
DeathCutoff(n) == (7 * n) \div 10

\* ecosystem.py:375
NumParents(n) == Min(MaxReproducing, ReproductionCutoff(n))

\* ecosystem.py:421-427: the hypotheses put into the offspring's knowledge base
Inherited(parent, hp) ==
    {Take(parent.active_hypotheses, InheritWindow)[k] :
        k \in {j \in DOMAIN Take(parent.active_hypotheses, InheritWindow) :
                 RLess(Rat(6, 10), hp[Take(parent.active_hypotheses, InheritWindow)[j]].confidence)}}

\* ecosystem.py:412-461: p is the paradigm the two random draws settle on
create_offspring(parent, hp, p) ==
    [active_paradigms |-> {p},
     active_hypotheses |-> <<>>,
     kb |-> Inherited(parent, hp)]

\* ecosystem.py:383, with the generation standing for the timestamp
OffspringId(parent_id, t, n) == parent_id \o <<t, n>>

\* ecosystem.py:375-397: st = [agents, edges, born]
RECURSIVE Reproduce(_, _, _, _, _, _)
Reproduce(st, rank, hp, i, ps, t) ==
    IF i > NumParents(Len(rank)) THEN st
    ELSE LET parent == st.agents[IndexOf(st.agents, rank[i][1])]
             child == create_offspring(parent, hp, ps[i])
             cid == OffspringId(parent.id, t, Len(st.agents))
             rec == [id |-> cid,
                     active_paradigms |-> child.active_paradigms,
                     active_hypotheses |-> child.active_hypotheses,
                     kb |-> child.kb,
                     influence |-> RMul(rank[i][2], Rat(4, 5))]
         IN  Reproduce([agents |-> DictPut(st.agents, rec),
                        edges |-> [e \in DOMAIN st.edges \cup {<<parent.id, cid>>} |->
                                     IF e = <<parent.id, cid>> THEN 10 ELSE st.edges[e]],
                        born |-> Append(st.born, cid)],
                       rank, hp, i + 1, ps, t)

\* ecosystem.py:404
VeryLowFitnessLax(f) == TRUE

VeryLowFitness(f) == RLess(f, Rat(2, 10))

\* ecosystem.py:400
OverLimitNever(n) == TRUE

OverLimit(n) == n > PopulationLimit

\* ecosystem.py:401: range(len - 1, max(len - 3, death_cutoff), -1), 1-based here
DeathRange(n) == {i \in 1..n : i > Max(n - 3, DeathCutoff(n)) + 1}

\* ecosystem.py:399-410: the ids removed, lowest rank first
Doomed(rank, size) ==
    IF OverLimit(size)
    THEN {rank[i][1] : i \in {j \in DeathRange(Len(rank)) : VeryLowFitness(rank[j][2])}}
    ELSE {}

RemoveAll(as, ids) == SelectSeq(as, LAMBDA a : a.id \notin ids)

\* the fitness list computed anew over the grown population
RankingOfGrown(before, grown, hp) == Ranking(grown, hp)

\* ecosystem.py:401-403: the removal loop indexes agent_fitness, the list
\* built at ecosystem.py:354-368 before any offspring was created
RemovalRanking(before, grown, hp) == Ranking(before, hp)

\* ecosystem.py:351-410
apply_evolutionary_pressure ==
    /\ pc = "pressure"
    /\ pc' = "record"
    /\ \E ps \in [1..MaxReproducing -> ScientificParadigm] :
         LET rank == Ranking(agents, heap)
             grown == Reproduce([agents |-> agents, edges |-> communication_network,
                                 born |-> <<>>], rank, heap, 1, ps, gen)
             dead == Doomed(RemovalRanking(agents, grown.agents, heap), Len(grown.agents))
         IN  /\ agents' = RemoveAll(grown.agents, dead)
             /\ communication_network' =
                  [e \in {x \in DOMAIN grown.edges : x[1] \notin dead /\ x[2] \notin dead} |->
                     grown.edges[e]]
             /\ round' = [gen |-> gen, before |-> agents, born |-> grown.born,
                          removed |-> dead, grown |-> Len(grown.agents),
                          after |-> Len(RemoveAll(grown.agents, dead))]
    /\ UNCHANGED <<heap, paradigm_ecology, diversity_history, progress_history,
                   convergence_history, gen, generations, tasks, results, added>>
    /\ UNCHANGED otherThanE

EInit ==
    /\ agents = <<>>
    /\ heap = <<>>
    /\ communication_network = <<>>
    /\ paradigm_ecology = <<>>
    /\ diversity_history = <<>>
    /\ progress_history = <<>>
    /\ convergence_history = <<>>
    /\ pc = "idle"
    /\ gen = 0
    /\ generations = 0
    /\ tasks = <<>>
    /\ results = <<>>
    /\ round = [gen |-> -1, before |-> <<>>, born |-> <<>>, removed |-> {}, grown |-> 0,
                after |-> 0]
    /\ added = 0

ENext ==
    \/ \E prof \in AgentProfiles : add_agent(prof)
    \/ \E n \in 1..MaxGen : run_ecosystem_evolution(n)
    \/ spawn_research
    \/ research_task
    \/ facilitate_knowledge_exchange
    \/ simulate_paradigm_competition
    \/ facilitate_agent_adaptation
    \/ apply_evolutionary_pressure
    \/ record_ecosystem_state

(***************************************************************************)
(* One DeepScientificAgent living in an ecosystem (src/core/agent.py,      *)
(* src/core/ecosystem.py): its set of active paradigms and its three       *)
(* tunable parameters, under the agent's own paradigm reflection and       *)
(* meta-learning and under the ecosystem's competition, adaptation and     *)
(* reproduction.  What these read from outside this state (experiment      *)
(* analyses, hypothesis statistics, ecosystem metrics, random draws) is an *)
(* input of the action.  After a reproduction the state follows the        *)
(* offspring.                                                              *)
(***************************************************************************)
NumAgentParadigms == 4  \* enum members this agent's paradigms are drawn from
MaxBlindness == 5       \* active experiments one lens cannot explain
MaxOffspring == 1       \* reproductions along the followed lineage
MaxCrises == 2          \* epistemic crises one agent records
MaxTuned == 4           \* parameter updates along the followed lineage

AgentParadigms == {AllParadigms[i] : i \in 1..NumAgentParadigms}

RMin(x, y) == IF RLess(y, x) THEN y ELSE x
RMax(x, y) == IF RLess(x, y) THEN y ELSE x

\* agent.py:478-500: the lenses for which _find_unexplained_by_paradigm can
\* return a non-empty list
BlindnessParadigms == {"FALSIFICATIONISM", "COMPLEXITY"}

\* agent.py:638: the paradigms that embrace contradictions
ContradictionTolerant == {"FEYERABEND", "HERMENEUTIC"}

\* agent.py:447-476: per active paradigm, one paradigm_blindness anomaly for
\* each experiment with unexplained results and at most one
\* internal_contradiction anomaly
detect_paradigm_anomalies(active, unexplained, contradictory) ==
    [p \in active |->
        [paradigm_blindness |-> IF p \in DOMAIN unexplained THEN unexplained[p] ELSE 0,
         internal_contradiction |-> IF p \in contradictory THEN 1 ELSE 0]]

\* len([a for a in anomalies if a["paradigm"] == paradigm])
AnomalyCount(anomalies, p) ==
    IF p \in DOMAIN anomalies
    THEN anomalies[p].paradigm_blindness + anomalies[p].internal_contradiction
    ELSE 0

RECURSIVE SumOver(_, _)
SumOver(f, S) ==
    IF S = {} THEN 0
    ELSE LET x == CHOOSE y \in S : TRUE IN f[x] + SumOver(f, S \ {x})

\* len(anomalies)
TotalAnomalies(anomalies) ==
    SumOver([p \in DOMAIN anomalies |-> AnomalyCount(anomalies, p)], DOMAIN anomalies)

\* agent.py:522-535; primary is list(self.active_paradigms)[0]
should_consider_paradigm_shift(active, primary, performance, anomalies) ==
    IF active = {} THEN FALSE
    ELSE LET primary_performance ==
                 IF primary \in DOMAIN performance THEN performance[primary] ELSE RZero
             anomaly_count == AnomalyCount(anomalies, primary)
         IN  (RLess(primary_performance, Rat(1, 2)) /\ anomaly_count > 2)
             \/ anomaly_count > 4

\* agent.py:617-641 summed over the anomalies: every paradigm_blindness
\* anomaly counts (no blindness of a lens is a substring of an unexplained
\* item), an internal_contradiction counts for a tolerant paradigm
Explainable(p, anomalies) ==
    SumOver([q \in DOMAIN anomalies |->
                anomalies[q].paradigm_blindness
                + (IF p \in ContradictionTolerant
                   THEN anomalies[q].internal_contradiction ELSE 0)],
            DOMAIN anomalies)

\* agent.py:608: explainable / max(len(anomalies), 1)
AlternativeScore(p, anomalies) ==
    Rat(Explainable(p, anomalies), Max(TotalAnomalies(anomalies), 1))

\* agent.py:587-615: the paradigms that can come first in the returned list
explore_alternative_paradigms(active, anomalies) ==
    LET scored == {p \in (AgentParadigms \ active) : p \in paradigm_lenses}
    IN  {p \in scored :
            /\ RLess(Rat(3, 10), AlternativeScore(p, anomalies))
            /\ \A q \in scored :
                  ~RLess(AlternativeScore(p, anomalies), AlternativeScore(q, anomalies))}

\* agent.py:46 and scientific_agent.py:94-96
NoAgent ==
    [constructed |-> FALSE, active_paradigms |-> {}, novelty_preference |-> RZero,
     risk_tolerance |-> RZero, rigor_threshold |-> RZero,
     epistemic_crises |-> <<>>, paradigm_shifts |-> <<>>, offspring |-> 0, tuned |-> 0,
     knowledge_base |-> {}]

\* agent.py:23-58 with the defaults of scientific_agent.py:94-96
construct_agent(p) ==
    /\ ~agent.constructed
    /\ agent' = [constructed |-> TRUE, active_paradigms |-> {p},
                 novelty_preference |-> Rat(1, 2), risk_tolerance |-> Rat(1, 2),
                 rigor_threshold |-> Rat(7, 10),
                 epistemic_crises |-> <<>>, paradigm_shifts |-> <<>>,
                 offspring |-> 0, tuned |-> 0,
                 knowledge_base |-> {<<"h", 1>>}]
    /\ alast' = [op |-> "construct"]
    /\ UNCHANGED otherThanA

\* performance as _evaluate_paradigm_performance returns it (agent.py:422-445):
\* a value for each active paradigm that has compatible hypotheses
PerformanceValues == {<<2, 5>>, <<1, 2>>}
Performances(active) == UNION {[S -> PerformanceValues] : S \in SUBSET active}

\* the number of experiments with unexplained results, per lens that can
\* report any
Unexplained(active) == [active \cap BlindnessParadigms -> 0..MaxBlindness]

\* agent.py:541-568: the crisis is recorded, the first alternative joins the
\* active set and the shift is recorded with list(active_paradigms)[0] of
\* the enlarged set as its origin
consider_paradigm_shift(a, anomalies, new_paradigms) ==
    LET crisis == [current_paradigms |-> a.active_paradigms,
                   anomalies |-> TotalAnomalies(anomalies)]
        recorded == [a EXCEPT !.epistemic_crises = Append(@, crisis)]
    IN  IF new_paradigms = {} THEN {recorded}
        ELSE {[recorded EXCEPT
                 !.active_paradigms = @ \cup {x[1]},
                 !.paradigm_shifts = Append(@, [from |-> x[2], to |-> x[1]])] :
              x \in {y \in new_paradigms \X AgentParadigms :
                        y[2] \in a.active_paradigms \cup {y[1]}}}

\* agent.py:408-420
paradigm_reflection(primary, performance, unexplained, contradictory) ==
    /\ agent.constructed
    /\ agent.active_paradigms \subseteq paradigm_lenses
    /\ primary \in agent.active_paradigms
    /\ LET anomalies == detect_paradigm_anomalies(agent.active_paradigms,
                                                  unexplained, contradictory)
           should == should_consider_paradigm_shift(agent.active_paradigms, primary,
                                                    performance, anomalies)
           alternatives == explore_alternative_paradigms(agent.active_paradigms, anomalies)
       IN  /\ alast' = [op |-> "paradigm_reflection"]
           /\ IF TotalAnomalies(anomalies) > 0 /\ should
              THEN /\ Len(agent.epistemic_crises) < MaxCrises
                   /\ agent' \in consider_paradigm_shift(agent, anomalies, alternatives)
              ELSE UNCHANGED agent
    /\ UNCHANGED otherThanA

\* the patterns _analyze_research_patterns hands over (agent.py:812-857)
SuccessRates == {<<0, 1>>, <<3, 10>>, <<1, 1>>}
Efficiencies == {<<0, 1>>, <<2, 5>>}
QuantumEffects == {0, 2, 3}

\* agent.py:859-882
update_from_meta_learning(a, success_rate, efficiency, effects) ==
    [a EXCEPT
       !.novelty_preference =
           IF RLess(success_rate, Rat(3, 10)) THEN RMax(Rat(3, 10), RAdd(@, Rat(-1, 10)))
           ELSE IF RLess(Rat(7, 10), success_rate) THEN RMin(Rat(9, 10), RAdd(@, Rat(1, 20)))
           ELSE @,
       !.risk_tolerance =
           IF RLess(efficiency, Rat(2, 5)) THEN RMax(Rat(3, 10), RAdd(@, Rat(-1, 10)))
           ELSE @,
       !.rigor_threshold =
           IF effects > 2 THEN RMin(Rat(19, 20), RAdd(@, Rat(1, 20))) ELSE @]

\* agent.py:884-923: the ids of the hypotheses returned, the time of the
\* call standing in their names; effective tells whether
\* patterns["paradigm_effectiveness"] has an entry
generate_meta_hypotheses(a, effective, effects) ==
    (IF effective THEN {<<"meta_paradigm", a.tuned>>} ELSE {})
        \cup (IF effects > 0 THEN {<<"meta_quantum", a.tuned>>} ELSE {})

\* agent.py:791-810: the seventh phase of a cycle that has not raised; the
\* meta-hypotheses go into the entry appended to reflection_history, which
\* alast keeps together with the success rate the phase computed
meta_scientific_learning(success_rate, efficiency, effects, effective) ==
    /\ agent.constructed
    /\ agent.active_paradigms \subseteq paradigm_lenses
    /\ agent.tuned < MaxTuned
    /\ agent' = [update_from_meta_learning(agent, success_rate, efficiency, effects)
                    EXCEPT !.tuned = @ + 1]
    /\ alast' = [op |-> "meta_scientific_learning",
                 hypothesis_success_rate |-> success_rate,
                 meta_hypotheses |-> generate_meta_hypotheses(agent, effective, effects)]
    /\ UNCHANGED otherThanA

\* the ecosystem metrics read by _facilitate_agent_adaptation
DiversityValues == {<<1, 5>>, <<3, 10>>}
ConvergenceValues == {<<7, 10>>, <<4, 5>>}

\* ecosystem.py:288-295 on one agent
Adapted(a, diversity, convergence) ==
    [a EXCEPT
       !.novelty_preference =
           IF RLess(diversity, Rat(3, 10)) THEN RMin(Rat(9, 10), RAdd(@, Rat(1, 10))) ELSE @,
       !.risk_tolerance =
           IF RLess(Rat(7, 10), convergence) THEN RMin(Rat(4, 5), RAdd(@, Rat(1, 10))) ELSE @]

agent_adaptation(diversity, convergence) ==
    /\ agent.constructed
    /\ agent.tuned < MaxTuned
    /\ agent' = [Adapted(agent, diversity, convergence) EXCEPT !.tuned = @ + 1]
    /\ alast' = [op |-> "agent_adaptation"]
    /\ UNCHANGED otherThanA

\* a switch that leaves the agent without a paradigm
SwitchedToNone(best) == {}

\* ecosystem.py:241
SwitchedTo(best) == {best}

\* ecosystem.py:231-241 on one agent: the random draw fell below switch_prob
\* and best_paradigm differs from next(iter(agent.active_paradigms))
paradigm_switch(current, best) ==
    /\ agent.constructed
    /\ current \in agent.active_paradigms
    /\ best # current
    /\ agent' = [agent EXCEPT !.active_paradigms = SwitchedTo(best)]
    /\ alast' = [op |-> "paradigm_switch"]
    /\ UNCHANGED otherThanA

\* the three draws of ecosystem.py:452-454, np.random.uniform(0.9, 1.1) twice
\* and np.random.uniform(0.95, 1.05): all at the low end, all in the middle
\* or all at the high end of their intervals
MutationDraws ==
    {<<Rat(9, 10), Rat(9, 10), Rat(19, 20)>>, <<ROne, ROne, ROne>>,
     <<Rat(11, 10), Rat(11, 10), Rat(21, 20)>>}

\* no clamping
ClampNone(lo, hi, x) == x

\* ecosystem.py:457-459: max(lo, min(hi, x))
Clamp(lo, hi, x) == RMax(lo, RMin(hi, x))

\* ecosystem.py:416-459: the offspring of parent a; its new knowledge base
\* receives the parent's hypothesis (one of the first five active ones, of
\* confidence above 0.6)
Offspring(a, offspring_paradigm, fn, fr, fg) ==
    [constructed |-> TRUE,
     active_paradigms |-> {offspring_paradigm},
     novelty_preference |-> Clamp(Rat(1, 10), Rat(9, 10), RMul(a.novelty_preference, fn)),
     risk_tolerance |-> Clamp(Rat(1, 10), Rat(9, 10), RMul(a.risk_tolerance, fr)),
     rigor_threshold |-> Clamp(Rat(1, 2), Rat(19, 20), RMul(a.rigor_threshold, fg)),
     epistemic_crises |-> <<>>,
     paradigm_shifts |-> <<>>,
     offspring |-> a.offspring + 1,
     tuned |-> a.tuned,
     knowledge_base |-> a.knowledge_base]

\* ecosystem.py:412-461 with the agent as parent: the paradigm is the
\* parent's next(iter(active_paradigms)) or, on mutation, any other member
reproduce(parent_paradigm, offspring_paradigm, fn, fr, fg) ==
    /\ agent.constructed
    /\ agent.offspring < MaxOffspring
    /\ parent_paradigm \in agent.active_paradigms
    /\ agent' = Offspring(agent, offspring_paradigm, fn, fr, fg)
    /\ alast' = [op |-> "reproduce"]
    /\ UNCHANGED otherThanA

AInit ==
    /\ agent = NoAgent
    /\ alast = [op |-> "init"]

\* The parameters are not read by the paradigm operations, nor the paradigms
\* by the parameter updates (only the lens check that lets a cycle reach its
\* seventh phase), so the two are explored apart: ANext follows the
\* paradigms of an agent, PNext its parameters.
ANext ==
    \/ \E p \in AgentParadigms : construct_agent(p)
    \/ \E primary \in AgentParadigms :
         \E performance \in Performances(agent.active_paradigms) :
           \E unexplained \in Unexplained(agent.active_paradigms) :
             \E contradictory \in SUBSET agent.active_paradigms :
               paradigm_reflection(primary, performance, unexplained, contradictory)
    \/ \E current, best \in AgentParadigms : paradigm_switch(current, best)
    \/ \E pp, op \in AgentParadigms :
         \E f \in MutationDraws : reproduce(pp, op, f[1], f[2], f[3])

PNext ==
    \/ \E p \in AgentParadigms : construct_agent(p)
    \/ \E sr \in SuccessRates : \E ef \in Efficiencies : \E qe \in QuantumEffects :
         \E effective \in BOOLEAN : meta_scientific_learning(sr, ef, qe, effective)
    \/ \E d \in DiversityValues : \E c \in ConvergenceValues : agent_adaptation(d, c)
    \/ \E pp, op \in AgentParadigms :
         \E f \in MutationDraws : reproduce(pp, op, f[1], f[2], f[3])

(***************************************************************************)
(* Functions whose result depends on their arguments alone.  A call is     *)
(* recorded with its arguments and its result.                             *)
(***************************************************************************)
\* agent.py:522-535 called on the anomalies of a set of active paradigms
call_should_consider_paradigm_shift(active, primary, performance, unexplained, contradictory) ==
    /\ primary \in active
    /\ LET anomalies == detect_paradigm_anomalies(active, unexplained, contradictory)
       IN  call' = [fn |-> "_should_consider_paradigm_shift",
                    args |-> [primary_performance |->
                                  IF primary \in DOMAIN performance
                                  THEN performance[primary] ELSE RZero,
                              primary_anomalies |-> AnomalyCount(anomalies, primary),
                              total_anomalies |-> TotalAnomalies(anomalies),
                              blindness_anomalies |->
                                  SumOver([p \in active |-> anomalies[p].paradigm_blindness],
                                          active)],
                    result |-> should_consider_paradigm_shift(active, primary,
                                                              performance, anomalies)]
    /\ UNCHANGED otherThanF

MaxAmplitude == 2   \* largest real and imaginary part of an amplitude

\* complex amplitudes with integer parts, as <<real, imag>>
Amplitudes == (-MaxAmplitude..MaxAmplitude) \X (-MaxAmplitude..MaxAmplitude)

\* abs(z) ** 2
AbsSquared(z) == z[1] * z[1] + z[2] * z[2]

\* quantum.py:168 and 172
Constructive(a1, a2) == AbsSquared(<<a1[1] + a2[1], a1[2] + a2[2]>>)

\* quantum.py:169 and 173
Destructive(a1, a2) == AbsSquared(<<a1[1] - a2[1], a1[2] - a2[2]>>)

\* the difference without the division
VisibilityUnnormalised(constructive, destructive) == Rat(constructive - destructive, 1)

\* quantum.py:179
Visibility(constructive, destructive) ==
    IF constructive + destructive # 0
    THEN Rat(constructive - destructive, constructive + destructive)
    ELSE RZero

\* quantum.py:163-181 on two registered states with the given amplitudes
call_compute_interference(a1, a2) ==
    /\ call' = [fn |-> "compute_interference",
                args |-> [amplitude1 |-> a1, amplitude2 |-> a2],
                result |-> [constructive_probability |-> Constructive(a1, a2),
                            destructive_probability |-> Destructive(a1, a2),
                            interference_visibility |->
                                Visibility(Constructive(a1, a2), Destructive(a1, a2))]]
    /\ UNCHANGED otherThanF

FInit == call = [fn |-> "none", args |-> <<>>, result |-> <<>>]

FNext ==
    \/ \E active \in SUBSET (AgentParadigms \cap paradigm_lenses) :
         \E primary \in active :
           \E performance \in Performances(active) :
             \E unexplained \in Unexplained(active) :
               \E contradictory \in SUBSET active :
                 call_should_consider_paradigm_shift(active, primary, performance,
                                                     unexplained, contradictory)
    \/ \E a1, a2 \in Amplitudes : call_compute_interference(a1, a2)

(***************************************************************************)
(* HermeneuticScientificInterpreter (src/core/hermeneutics.py:96-315)      *)
(*                                                                         *)
(* A belief and a hypothesis statement are sequences of words.  An         *)
(* interpretation and an understanding are records, as the dicts of the    *)
(* code: a key the dict lacks is a field the record lacks.  The lists      *)
(* contradictions and adjusted_beliefs are kept as sets.                   *)
(***************************************************************************)
NumInterpreterParadigms == 5  \* enum members an interpreter's horizon is drawn from
MaxCircles == 2               \* hermeneutic circles one interpreter conducts

InterpreterParadigms == {AllParadigms[i] : i \in 1..NumInterpreterParadigms}

\* a horizon whose pre-understandings hold absolute statements
AbsoluteHorizon(p) ==
    [InitialHorizon(p) EXCEPT
        !.pre_understandings = {<<"theories", "always", "generalise">>,
                                <<"only", "experiments", "count">>}]

\* the horizons an interpreter is constructed with
InterpreterHorizons ==
    {InitialHorizon(p) : p \in InterpreterParadigms}
        \cup {AbsoluteHorizon(p) : p \in InterpreterParadigms}

\* the hypotheses handed to conduct_hermeneutic_circle
CircleHypotheses ==
    {[id |-> "h1", statement |-> <<"theories", "always", "generalise">>,
      confidence |-> Rat(1, 2)],
     [id |-> "h2", statement |-> <<"light", "bends">>, confidence |-> Rat(4, 5)]}

\* hermeneutics.py:58-94
interpret_data(horizon) ==
    LET base == [horizon |-> horizon.tradition,
                 historical_effects |-> horizon.effective_history]
        with(focus, method, value_criteria) ==
            [k \in DOMAIN base \cup {"focus", "method", "value_criteria"} |->
                CASE k = "focus" -> focus
                  [] k = "method" -> method
                  [] k = "value_criteria" -> value_criteria
                  [] OTHER -> base[k]]
    IN  CASE horizon.tradition = "FALSIFICATIONISM" ->
                with("refutation_attempts", "search_for_counterexamples",
                     {"falsifiability", "riskiness"})
          [] horizon.tradition = "HERMENEUTIC" ->
                with("understanding_meaning", "hermeneutic_circle",
                     {"coherence", "meaningfulness", "context_sensitivity"})
          [] horizon.tradition = "BAYESIAN" ->
                with("belief_updating", "probabilistic_inference",
                     {"likelihood_ratio", "prior_plausibility"})
          [] horizon.tradition = "COMPLEXITY" ->
                with("emergent_patterns", "pattern_recognition",
                     {"nonlinearity", "scale_invariance", "emergence"})
          [] OTHER ->
                with("general_analysis", "standard_review", {"accuracy"})

\* "word" in bias
ContainsWord(bias, word) == \E i \in DOMAIN bias : bias[i] = word

\* every absolute bias counted as challenged, whatever the focus
find_contradictions_any_focus(pre_understanding, interpretation) ==
    IF "focus" \in DOMAIN interpretation /\ "horizon_biases" \in DOMAIN pre_understanding
    THEN {[type |-> "absolute_statement_challenged", bias |-> bias] :
            bias \in {b \in pre_understanding.horizon_biases :
                        ContainsWord(b, "only") \/ ContainsWord(b, "always")}}
    ELSE {}

\* hermeneutics.py:219-239
find_contradictions(pre_understanding, interpretation) ==
    IF "focus" \in DOMAIN interpretation /\ "horizon_biases" \in DOMAIN pre_understanding
    THEN {[type |-> "absolute_statement_challenged", bias |-> bias] :
            bias \in {b \in pre_understanding.horizon_biases :
                        /\ ContainsWord(b, "only") \/ ContainsWord(b, "always")
                        /\ interpretation.focus = "counterexamples"}}
    ELSE {}

\* hermeneutics.py:256: bias.replace("always", "often").replace("only", "primarily")
Qualified(bias) ==
    [i \in DOMAIN bias |->
        IF bias[i] = "always" THEN "often"
        ELSE IF bias[i] = "only" THEN "primarily"
        ELSE bias[i]]

\* hermeneutics.py:241-265
adjust_understanding(pre_understanding, interpretation, contradictions) ==
    LET addressed == {c \in contradictions : c.type = "absolute_statement_challenged"}
    IN  [original_pre_understanding |-> pre_understanding,
         initial_interpretation |-> interpretation,
         contradictions_addressed |-> addressed,
         adjusted_beliefs |->
            {[from |-> c.bias, to |-> Qualified(c.bias),
              reason |-> "data_shows_exceptions"] : c \in addressed}]

\* hermeneutics.py:267-279; a statement of the model either is a belief or
\* shares no run of words with it
adjust_statement(statement, adjustments) ==
    IF \E adj \in adjustments : adj.from = statement
    THEN Qualified(statement)
    ELSE statement

\* dict.get(key, default)
Get(dict, key, default) == IF key \in DOMAIN dict THEN dict[key] ELSE default

\* x in y for the strings of the model: "" is in every string, and no focus
\* of interpret_data is part of another
IsSubstring(x, y) == x = "" \/ x = y

\* hermeneutics.py:288-293
FocusCoherence(focus1, focus2) ==
    IF focus1 = focus2 THEN ROne
    ELSE IF IsSubstring(focus1, focus2) \/ IsSubstring(focus2, focus1) THEN Rat(7, 10)
    ELSE Rat(3, 10)

\* hermeneutics.py:299-302
MethodCoherence(method1, method2) == IF method1 = method2 THEN ROne ELSE Rat(1, 2)

\* hermeneutics.py:308-313
ValueCoherence(values1, values2) ==
    IF values1 = values2 THEN ROne
    ELSE IF values1 \cap values2 # {}
         THEN Rat(Cardinality(values1 \cap values2), Cardinality(values1 \cup values2))
    ELSE RZero

\* the three parts added and not divided
CoherenceSum(focus_coherence, method_coherence, value_coherence) ==
    RAdd(RAdd(focus_coherence, method_coherence), value_coherence)

\* hermeneutics.py:315
CoherenceMean(focus_coherence, method_coherence, value_coherence) ==
    RDiv(RAdd(RAdd(focus_coherence, method_coherence), value_coherence), Rat(3, 1))

\* hermeneutics.py:281-315
compute_coherence(understanding1, understanding2) ==
    CoherenceMean(
        FocusCoherence(Get(understanding1, "focus", ""), Get(understanding2, "focus", "")),
        MethodCoherence(Get(understanding1, "method", ""),
                        Get(understanding2, "method", "")),
        ValueCoherence(Get(understanding1, "value_criteria", {}),
                       Get(understanding2, "value_criteria", {})))

\* hermeneutics.py:108-163: the record of one circle, without its two times
CircleRecord(horizon, hypothesis) ==
    LET pre_understanding == [hypothesis |-> hypothesis.statement,
                              existing_confidence |-> hypothesis.confidence,
                              horizon_biases |-> horizon.pre_understandings]
        initial_interpretation == interpret_data(horizon)
        contradictions == find_contradictions(pre_understanding, initial_interpretation)
        adjusted_understanding ==
            adjust_understanding(pre_understanding, initial_interpretation, contradictions)
        revised == adjust_statement(hypothesis.statement,
                                    adjusted_understanding.adjusted_beliefs)
        secondary_interpretation == interpret_data(horizon)
        coherence_score == compute_coherence(adjusted_understanding,
                                             secondary_interpretation)
    IN  [hypothesis_id |-> hypothesis.id,
         pre_understanding |-> pre_understanding,
         initial_interpretation |-> initial_interpretation,
         contradictions_found |-> contradictions,
         adjusted_understanding |-> adjusted_understanding,
         revised_hypothesis |-> IF revised # hypothesis.statement
                                THEN revised ELSE <<"unchanged">>,
         secondary_interpretation |-> secondary_interpretation,
         coherence_score |-> coherence_score,
         circle_complete |-> RLess(Rat(7, 10), coherence_score)]

NoInterpreter ==
    [constructed |-> FALSE, current_horizon |-> InitialHorizon("BAYESIAN"),
     hermeneutic_circles |-> <<>>]

\* hermeneutics.py:102-106
construct_interpreter(initial_horizon) ==
    /\ ~interpreter.constructed
    /\ interpreter' = [constructed |-> TRUE, current_horizon |-> initial_horizon,
                       hermeneutic_circles |-> <<>>]
    /\ ilast' = [op |-> "construct"]
    /\ UNCHANGED otherThanI

\* hermeneutics.py:108-163
conduct_hermeneutic_circle(hypothesis) ==
    /\ interpreter.constructed
    /\ Len(interpreter.hermeneutic_circles) < MaxCircles
    /\ interpreter' =
          [interpreter EXCEPT
              !.hermeneutic_circles =
                  Append(@, CircleRecord(interpreter.current_horizon, hypothesis))]
    /\ ilast' = [op |-> "conduct_hermeneutic_circle"]
    /\ UNCHANGED otherThanI

\* agent.py:355-357: the confidence of the hypothesis after its circle
confidence_after_circle(hypothesis, circle_result) ==
    LET coherence_score == Get(circle_result, "coherence_score", RZero)
    IN  IF RLess(Rat(7, 10), coherence_score)
        THEN RMul(hypothesis.confidence,
                  RAdd(ROne, RMul(coherence_score, Rat(1, 10))))
        ELSE hypothesis.confidence

\* agent.py:339-362: the phase of an agent whose one active experiment has
\* results and belongs to hypothesis; ilast keeps the hypothesis as it was
\* handed in and its confidence when the phase returns
hermeneutic_data_interpretation(hypothesis) ==
    /\ interpreter.constructed
    /\ Len(interpreter.hermeneutic_circles) < MaxCircles
    /\ LET circle_result == CircleRecord(interpreter.current_horizon, hypothesis)
       IN  /\ interpreter' =
                 [interpreter EXCEPT !.hermeneutic_circles = Append(@, circle_result)]
           /\ ilast' = [op |-> "hermeneutic_data_interpretation",
                        hypothesis |-> hypothesis,
                        confidence |-> confidence_after_circle(hypothesis, circle_result)]
    /\ UNCHANGED otherThanI

\* agent.py:572-583: the owning agent replaces current_horizon by its fusion
\* with the horizon of a newly adopted paradigm
replace_horizon(p) ==
    /\ interpreter.constructed
    /\ 2 * Len(interpreter.current_horizon.fusion_history) + 1 <= MaxFusionLen
    /\ interpreter' =
          [interpreter EXCEPT
              !.current_horizon = Fused(@, ShiftHorizon(@, p))]
    /\ ilast' = [op |-> "replace_horizon"]
    /\ UNCHANGED otherThanI

IInit ==
    /\ interpreter = NoInterpreter
    /\ ilast = [op |-> "init"]

INext ==
    \/ \E h \in InterpreterHorizons : construct_interpreter(h)
    \/ \E hypothesis \in CircleHypotheses : conduct_hermeneutic_circle(hypothesis)
    \/ \E hypothesis \in CircleHypotheses : hermeneutic_data_interpretation(hypothesis)
    \/ \E p \in InterpreterParadigms : replace_horizon(p)

(***************************************************************************)
(* KnowledgeMarket (src/core/ecosystem.py:13-78)                           *)
(*                                                                         *)
(* A trade is the dict trade_hypothesis records, without its timestamp.    *)
(***************************************************************************)
MaxTrades == 18     \* trades on one market
MaxReversals == 2   \* times a trade's price differs from the price before it

\* the prices of the trades: below 30, 30, 100 and above 100
Prices == {20, 30, 100, 150}

\* sellers, buyers and hypotheses of the trades
Traders == {"physics_0"}
TradedHypotheses == {[id |-> "h1", confidence |-> Rat(1, 2)]}

\* ecosystem.py:22-27
NewMarket == [market_sentiment |-> Rat(1, 2), trading_history |-> <<>>]

\* the sum as it is
Uncapped(x) == x

\* ecosystem.py:70: min(1.0, x)
Capped(x) == RMin(ROne, x)

\* ecosystem.py:73: max(0.0, x)
Floored(x) == RMax(RZero, x)

\* ecosystem.py:68-73
SentimentAfter(sentiment, price) ==
    IF price > 100 THEN Capped(RAdd(sentiment, Rat(5, 100)))
    ELSE IF price < 30 THEN Floored(RAdd(sentiment, Rat(-3, 100)))
    ELSE sentiment

\* ecosystem.py:55-63
Trade(m, seller, buyer, hypothesis, price) ==
    [seller |-> seller, buyer |-> buyer, hypothesis_id |-> hypothesis.id,
     price |-> price, hypothesis_confidence |-> hypothesis.confidence,
     market_sentiment |-> m.market_sentiment]

\* how often a trade's price differs from the price of the trade before it
Reversals(history) ==
    Cardinality({i \in 1..(Len(history) - 1) : history[i].price # history[i + 1].price})

\* ecosystem.py:51-78
trade_hypothesis(seller, buyer, hypothesis, price) ==
    /\ Len(market.trading_history) < MaxTrades
    /\ Reversals(Append(market.trading_history,
                        Trade(market, seller, buyer, hypothesis, price))) <= MaxReversals
    /\ market' = [market_sentiment |-> SentimentAfter(market.market_sentiment, price),
                  trading_history |->
                      Append(market.trading_history,
                             Trade(market, seller, buyer, hypothesis, price))]
    /\ mlast' = [op |-> "trade_hypothesis", result |-> TRUE]
    /\ UNCHANGED otherThanM

MInit ==
    /\ market = NewMarket
    /\ mlast = [op |-> "init", result |-> FALSE]

MNext ==
    \E seller, buyer \in Traders : \E hypothesis \in TradedHypotheses :
        \E price \in Prices : trade_hypothesis(seller, buyer, hypothesis, price)

(***************************************************************************)
(* MerkleLedger (src/core/vsa/provenance/ledger.py)                        *)
(*                                                                         *)
(* A SHA-256 digest is a number below HashSpace, the digest of 64 zeros    *)
(* being 0; _compute_hash is a fixed function of its content into that     *)
(* space, so two contents may share a digest.  A content is the sequence   *)
(* of the parts the code concatenates.                                     *)
(***************************************************************************)
MaxBlocks == 3     \* rows of table blocks
MaxTime == 2       \* distinct readings of datetime.now()
HashSpace == 16    \* number of digests

\* the records handed to add_entry
Entries == <<[type |-> "hypothesis_created", hypothesis_id |-> "h1"],
             [type |-> "experiment_designed", hypothesis_id |-> "h1"],
             [type |-> "results_recorded", results |-> [success |-> TRUE]]>>

\* ledger.py:45: json.dumps(data, sort_keys=True), one string per record
DataStr(data) == CHOOSE i \in DOMAIN Entries : Entries[i] = data

\* datetime.now().isoformat(): the clock may repeat a reading
Timestamps == 1..MaxTime

RECURSIVE HashFrom(_, _)
HashFrom(h, content) ==
    IF content = <<>> THEN h
    ELSE HashFrom((h * 5 + Head(content) + 3) % HashSpace, Tail(content))

\* ledger.py:34-35
compute_hash(content) == HashFrom(7, content)

\* "0" * 64
ZeroHash == 0

\* SELECT block_hash FROM blocks ORDER BY id ASC LIMIT 1
OldestBlockHash(blocks) == IF blocks = <<>> THEN ZeroHash ELSE blocks[1].block_hash

\* ledger.py:41-43
LatestBlockHash(blocks) ==
    IF blocks = <<>> THEN ZeroHash ELSE blocks[Len(blocks)].block_hash

\* ledger.py:45-56: the row add_entry inserts
NewBlock(blocks, data, timestamp) ==
    LET prev_hash == LatestBlockHash(blocks)
        data_str == DataStr(data)
        merkle_root == compute_hash(<<data_str>>)
        block_content == <<prev_hash, merkle_root, timestamp>>
    IN  [id |-> Len(blocks) + 1, prev_hash |-> prev_hash, merkle_root |-> merkle_root,
         timestamp |-> timestamp, data_json |-> data_str,
         block_hash |-> compute_hash(block_content)]

\* ledger.py:67-79: the loop over the rows by ascending id, with the block
\* hash expected before row i
RECURSIVE VerifyFrom(_, _, _)
VerifyFrom(blocks, i, expected_prev_hash) ==
    IF i > Len(blocks) THEN TRUE
    ELSE IF blocks[i].prev_hash # expected_prev_hash THEN FALSE
    ELSE IF compute_hash(<<blocks[i].prev_hash, blocks[i].merkle_root,
                           blocks[i].timestamp>>) # blocks[i].block_hash THEN FALSE
    ELSE VerifyFrom(blocks, i + 1, blocks[i].block_hash)

\* ledger.py:37-59
add_entry(data, timestamp) ==
    /\ Len(ledger) < MaxBlocks
    /\ ledger' = Append(ledger, NewBlock(ledger, data, timestamp))
    /\ llast' = [op |-> "add_entry", result |-> NewBlock(ledger, data, timestamp).block_hash]
    /\ UNCHANGED otherThanL

\* ledger.py:61-82
verify_chain ==
    /\ llast' = [op |-> "verify_chain", result |-> VerifyFrom(ledger, 1, ZeroHash)]
    /\ UNCHANGED ledger
    /\ UNCHANGED otherThanL

\* ledger.py:15-32 on a new database file
LInit ==
    /\ ledger = <<>>
    /\ llast = [op |-> "init", result |-> ZeroHash]

LNext ==
    \/ \E i \in DOMAIN Entries : \E timestamp \in Timestamps : add_entry(Entries[i], timestamp)
    \/ verify_chain

(***************************************************************************)
(* Specifications                                                          *)
(***************************************************************************)
Init == QInit /\ EInit /\ HInit /\ AInit /\ IInit /\ MInit /\ LInit /\ FInit

SpecQ == Init /\ [][QNext]_vars

SpecEco == Init /\ [][ENext]_vars

\* the steps of a started run (ecosystem.py:121-141)
RunStep ==
    \/ spawn_research
    \/ research_task
    \/ facilitate_knowledge_exchange
    \/ simulate_paradigm_competition
    \/ facilitate_agent_adaptation
    \/ apply_evolutionary_pressure
    \/ record_ecosystem_state

SpecH == Init /\ [][HNext]_vars

SpecA == Init /\ [][ANext]_vars

SpecP == Init /\ [][PNext]_vars

SpecI == Init /\ [][INext]_vars

SpecM == Init /\ [][MNext]_vars

SpecL == Init /\ [][LNext]_vars

SpecF == Init /\ [][FNext]_vars

(***************************************************************************)
(* Properties of the reasoner (SpecQ)                                      *)
(***************************************************************************)
\* C1: after every apply_evidence call that reaches a registered hypothesis,
\* the probabilities of all registered states sum to 1, entangled
\* neighbours of the target included.
C1_TotalProbabilityIsOne ==
    (qlast.op = "apply_evidence" /\ qlast.hit) =>
        TotalOf(hypothesis_superpositions) = ROne

\* C2: entanglement links are symmetric in every reachable state, also after
\* a registered hypothesis is registered again: compute_interference(a, b)
\* and compute_interference(b, a) report the same 'entangled' value.
C2_LinksSymmetric ==
    \A a \in Registered : \A b \in Registered :
        InterferenceEntangled(a, b) <=> InterferenceEntangled(b, a)

(***************************************************************************)
(* Properties of the ecosystem run (SpecEco)                               *)
(***************************************************************************)
HistoryLengths ==
    <<Len(diversity_history), Len(progress_history), Len(convergence_history)>>

SomeCycleRaised == \E i \in DOMAIN results : results[i].outcome = "raised"

\* what is left of the run: generations to go, then the position inside the
\* generation, then the research tasks not yet finished
StageRank ==
    [spawn |-> 7, research |-> 6, exchange |-> 5, competition |-> 4,
     adaptation |-> 3, pressure |-> 2, record |-> 1, done |-> 0, idle |-> 0,
     aborted |-> 0]

RunVariant == (generations - gen) * 1000 + StageRank[pc] * 100 + (Len(tasks) - Len(results))

\* a started run is never stuck: the step for its position has its guard
\* (exchange, pressure and recording are guarded by the position alone)
RunCanStep ==
    /\ pc = "spawn" => ENABLED spawn_research
    /\ pc = "research" => ENABLED research_task
    /\ pc = "adaptation" => ENABLED facilitate_agent_adaptation
    /\ pc = "competition" =>
          \/ FitnessKeys(agents, paradigm_ecology) = {}
          \/ BestParadigms(agents, heap, paradigm_ecology) # {}

\* C3: run_ecosystem_evolution(G) finishes after exactly G generations
\* whichever research cycles raise: no exception leaves the run, a started
\* run can always take its next step and every step brings it nearer its
\* end, and each of the three histories holds one entry per completed
\* generation, G in all at the end.
C3_ExactlyGGenerations ==
    /\ [](/\ pc # "aborted"
          /\ gen <= generations
          /\ HistoryLengths = <<gen, gen, gen>>
          /\ pc = "done" => gen = generations
          /\ RunCanStep
          /\ RunVariant >= 0)
    /\ [][RunStep => RunVariant' < RunVariant]_vars

C3_Witness ==
    /\ pc = "done"
    /\ generations = MaxGen
    /\ HistoryLengths = <<MaxGen, MaxGen, MaxGen>>
    /\ SomeCycleRaised

RaisedIds == {results[i].id : i \in {j \in DOMAIN results : results[j].outcome = "raised"}}

ReturnedIds == {results[i].id : i \in {j \in DOMAIN results : results[j].outcome = "returned"}}

\* right after the research phase: every task has a result, and every agent
\* whose own cycle does not raise has run all phases of all iterations
SiblingsRanAll ==
    pc = "exchange" =>
        /\ Len(results) = Len(tasks)
        /\ \A i \in DOMAIN results :
              /\ results[i].id = tasks[i]
              /\ HasLenses(agents[IndexOf(agents, tasks[i])]) =>
                    /\ results[i].outcome = "returned"
                    /\ results[i].iterations = Iterations
                    /\ results[i].phases = Iterations * NumPhases

\* the generation the results in hand belong to
ResultsGen == IF pc \in {"spawn", "done"} THEN gen - 1 ELSE gen

\* the pressure round of generation g removed agent id by its own rule
RemovedByPressure(id, g) ==
    /\ round.gen = g
    /\ id \in round.removed
    /\ round.grown > PopulationLimit
    /\ RLess(AgentFitness(round.before[IndexOf(round.before, id)], heap), Rat(2, 10))

\* C4 as stated: when one agent's cycle raises, every other agent's cycle
\* still runs all its iterations, and the failing agent is still in the
\* population when the next generation starts.
C4_FailingAgentStays ==
    /\ SiblingsRanAll
    /\ (pc = "spawn" /\ gen > 0) => \A id \in RaisedIds : HasAgent(agents, id)

\* C4 amended: when one agent's cycle raises, every other agent's cycle still
\* runs all its iterations; the failing agent stays in the population through
\* exchange, competition and adaptation, and is absent when the next
\* generation starts only if that generation's evolutionary pressure removed
\* it, which takes a fitness below 0.2 and a population above 10.
C4_FailingAgentStaysUnlessCulled ==
    /\ SiblingsRanAll
    /\ \A id \in RaisedIds :
          /\ pc \in {"research", "exchange", "competition", "adaptation", "pressure"} =>
                HasAgent(agents, id)
          /\ pc \in {"record", "spawn", "done"} =>
                HasAgent(agents, id) \/ RemovedByPressure(id, ResultsGen)

C4_Witness ==
    /\ pc = "spawn"
    /\ gen > 0
    /\ ReturnedIds # {}
    /\ \E id \in RaisedIds : ~HasAgent(agents, id) /\ RemovedByPressure(id, gen - 1)

\* C5: inside enhanced_research_cycle a raising phase is recorded and the
\* remaining phases and iterations still run, so every cycle goes through
\* all seven phases of both iterations.
C5_PhaseFailureContained ==
    \A i \in DOMAIN results :
        /\ results[i].iterations = Iterations
        /\ results[i].phases = Iterations * NumPhases

AfterResearch == {"exchange", "competition", "adaptation", "pressure", "record"}

\* the order of the steps of one generation (ecosystem.py:121-141)
StepOrder ==
    {<<"idle", "spawn">>, <<"spawn", "research">>, <<"spawn", "exchange">>,
     <<"research", "exchange">>, <<"exchange", "competition">>,
     <<"competition", "adaptation">>, <<"adaptation", "pressure">>,
     <<"adaptation", "record">>, <<"pressure", "record">>,
     <<"record", "spawn">>, <<"record", "done">>}

\* C6: exchange, competition, adaptation, pressure and recording start only
\* after every research cycle of the generation has returned or raised, and
\* then run in that order.
C6_PhasesAfterResearchInOrder ==
    /\ [](pc \in AfterResearch =>
            /\ Len(results) = Len(tasks)
            /\ \A i \in DOMAIN tasks : results[i].id = tasks[i]
            /\ pc = "exchange" => tasks = AgentIds(agents))
    /\ [][pc' # pc => <<pc, pc'>> \in StepOrder]_vars

C6_Witness ==
    /\ pc = "record"
    /\ round.gen = gen
    /\ Len(tasks) >= 2
    /\ RaisedIds # {}
    /\ ReturnedIds # {}

\* the Hypothesis objects reachable from an agent
ReachableHypotheses(a) == Range(a.active_hypotheses) \cup a.kb

\* C7: no mutable state is shared between agents: no Hypothesis object is
\* reachable from two agents, parent and offspring and teacher and learner
\* included.
C7_NoSharedHypothesis ==
    \A i \in DOMAIN agents : \A j \in DOMAIN agents :
        i # j => ReachableHypotheses(agents[i]) \cap ReachableHypotheses(agents[j]) = {}

\* C8: a round of evolutionary pressure adds at most 2 agents and removes at
\* most 2; it removes an agent only when that agent's fitness is below 0.2
\* and the population exceeds 10; the population grows by at most 2.
C8_PressureBounded ==
    round.gen >= 0 =>
        /\ Len(round.born) <= 2
        /\ Cardinality(round.removed) <= 2
        /\ round.grown = Len(round.before) + Len(round.born)
        /\ round.after = round.grown - Cardinality(round.removed)
        /\ round.after <= Len(round.before) + 2
        /\ pc \in {"record", "spawn"} => Len(agents) = round.after
        /\ round.removed # {} => round.grown > PopulationLimit
        /\ \A id \in round.removed :
              /\ HasAgent(round.before, id)
              /\ RLess(AgentFitness(round.before[IndexOf(round.before, id)], heap), Rat(2, 10))

C8_Witness ==
    /\ round.gen >= 0
    /\ Len(round.born) = 2
    /\ Cardinality(round.removed) = 2

\* the adherent counts among the agents whose cycle returned
EcologyOfReturned ==
    [p \in DOMAIN paradigm_ecology |->
       Cardinality({i \in DOMAIN agents :
                      agents[i].id \in ReturnedIds /\ p \in agents[i].active_paradigms})]

\* C9: the recorded diversity, progress and convergence of a generation are
\* computed only over the agents whose research cycle succeeded.
C9_MetricsOverSuccessfulOnly ==
    (pc \in {"spawn", "done"} /\ gen > 0) =>
        /\ progress_history[gen] = ProgressOver(agents, heap, SetToSeq(ReturnedIds))
        /\ convergence_history[gen] = ConvergenceOver(agents, heap, SetToSeq(ReturnedIds))
        /\ diversity_history[gen] = Diversity(agents, EcologyOfReturned)

(***************************************************************************)
(* Properties of horizon fusion (SpecH)                                    *)
(***************************************************************************)
\* C10: fuse_with(A, B) returns a new horizon whose fusion_history has
\* len(A) + len(B) + 1 entries, and leaves A and B as they were.
C10_FusionHistoryLength ==
    /\ [](hlast.op = "fuse_with" =>
            /\ hlast.result \notin {hlast.self, hlast.other}
            /\ Len(horizons[hlast.result].fusion_history) =
                  Len(horizons[hlast.self].fusion_history)
                  + Len(horizons[hlast.other].fusion_history) + 1)
    /\ [][\A i \in DOMAIN horizons : i \in DOMAIN horizons' /\ horizons'[i] = horizons[i]]_vars

C10_Witness ==
    /\ hlast.op = "fuse_with"
    /\ hlast.self # hlast.other
    /\ Len(horizons[hlast.self].fusion_history) >= 1
    /\ Len(horizons[hlast.result].fusion_history) = MaxFusionLen

\* C11: fuse_with(A, B) gives the fused horizon the tradition of the horizon
\* with the longer fusion history, A's tradition when both histories have
\* the same length, and B's only when B's history is strictly longer.
C11_DominantTraditionTieToSelf ==
    hlast.op = "fuse_with" =>
        horizons[hlast.result].tradition =
            IF Len(horizons[hlast.other].fusion_history)
                 > Len(horizons[hlast.self].fusion_history)
            THEN horizons[hlast.other].tradition
            ELSE horizons[hlast.self].tradition

\* C12: entangle_hypotheses, apply_evidence, compute_interference and
\* generate_quantum_predictions called with an id that is not registered
\* return without raising and leave superpositions, links, graph,
\* decoherence history and interference history as they were.
C12_UnknownIdIsNoOp ==
    [][(/\ qlast'.op \in {"entangle_hypotheses", "apply_evidence",
                          "compute_interference", "generate_quantum_predictions"}
        /\ ~qlast'.hit)
       => UNCHANGED <<hypothesis_superpositions, entanglement_network,
                      decoherence_history, interference_patterns>>]_vars

C12_Witness ==
    /\ qlast.op = "compute_interference"
    /\ ~qlast.hit
    /\ Registered # {}
    /\ interference_patterns # <<>>
    /\ decoherence_history # <<>>

(***************************************************************************)
(* Properties of one agent (SpecA, SpecP)                                  *)
(***************************************************************************)
\* C13: every agent's set of active paradigms is non-empty in every
\* reachable state: after construction, after a research cycle with a
\* paradigm shift, after a competition switch and after reproduction.
C13_ActiveParadigmsNonEmpty ==
    /\ agent.constructed => agent.active_paradigms # {}
    /\ \A i \in DOMAIN agents : agents[i].active_paradigms # {}

C13_Witness ==
    /\ alast.op = "paradigm_reflection"
    /\ agent.offspring = 1
    /\ Cardinality(agent.active_paradigms) = 3

\* C14: for an agent that starts with the default parameters or is created
\* as an offspring, novelty_preference and risk_tolerance stay in [0.1, 0.9]
\* and rigor_threshold stays in [0.5, 0.95] under meta-learning, ecosystem
\* adaptation and reproduction.
C14_ParametersInRange ==
    agent.constructed =>
        /\ ~RLess(agent.novelty_preference, Rat(1, 10))
        /\ ~RLess(Rat(9, 10), agent.novelty_preference)
        /\ ~RLess(agent.risk_tolerance, Rat(1, 10))
        /\ ~RLess(Rat(9, 10), agent.risk_tolerance)
        /\ ~RLess(agent.rigor_threshold, Rat(1, 2))
        /\ ~RLess(Rat(19, 20), agent.rigor_threshold)

C14_Witness ==
    /\ alast.op = "reproduce"
    /\ agent.novelty_preference = Rat(9, 10)
    /\ agent.risk_tolerance = Rat(22, 25)
    /\ agent.tuned = MaxTuned

(***************************************************************************)
(* Properties of functions (SpecF)                                         *)
(***************************************************************************)
\* C15: _should_consider_paradigm_shift returns true exactly when the
\* primary paradigm's performance is below 0.5 and it has more than 2
\* anomalies, or the anomalies of all active paradigms together exceed 4;
\* in particular performance 0.4 with 3 paradigm-blindness anomalies
\* returns true.
C15_ShiftConsideredOnTotalAnomalies ==
    call.fn = "_should_consider_paradigm_shift" =>
        (call.result <=>
            \/ /\ RLess(call.args.primary_performance, Rat(1, 2))
               /\ call.args.primary_anomalies > 2
            \/ call.args.total_anomalies > 4)

\* C16: for an agent whose two active hypotheses have statements with a
\* word-set Jaccard similarity of at least 0.6, exactly 0.6 included,
\* quantum_hypothesis_generation entangles the two, and compute_interference
\* on the pair then reports entangled = true.
C16_SimilarPairEntangled ==
    (/\ qlast.op = "quantum_hypothesis_generation"
     /\ ~RLess(qlast.similarity, Rat(6, 10)))
    => /\ InterferenceEntangled(1, 2)
       /\ InterferenceEntangled(2, 1)

\* C17: compute_interference on two registered hypotheses returns an
\* interference_visibility in [-1, 1] for every pair of amplitudes, and 0
\* when constructive + destructive is 0 (both amplitudes zero).
C17_VisibilityInRange ==
    call.fn = "compute_interference" =>
        /\ ~RLess(call.result.interference_visibility, Rat(-1, 1))
        /\ ~RLess(ROne, call.result.interference_visibility)
        /\ (call.result.constructive_probability
              + call.result.destructive_probability = 0) =>
              /\ call.result.interference_visibility = RZero
              /\ call.args.amplitude1 = <<0, 0>>
              /\ call.args.amplitude2 = <<0, 0>>

C17_Witness ==
    /\ call.fn = "compute_interference"
    /\ call.args.amplitude1 = <<0, 0>>
    /\ call.args.amplitude2 = <<0, 0>>
    /\ call.result.interference_visibility = RZero

\* C18: the coherence_score of every circle conduct_hermeneutic_circle
\* records is in [0, 1], and circle_complete is true exactly when that
\* score is greater than 0.7.
C18_CoherenceInUnitInterval ==
    \A i \in DOMAIN interpreter.hermeneutic_circles :
        LET circle == interpreter.hermeneutic_circles[i]
        IN  /\ ~RLess(circle.coherence_score, RZero)
            /\ ~RLess(ROne, circle.coherence_score)
            /\ circle.circle_complete <=> RLess(Rat(7, 10), circle.coherence_score)

C18_Witness ==
    /\ ilast.op = "conduct_hermeneutic_circle"
    /\ Len(interpreter.hermeneutic_circles) = MaxCircles
    /\ interpreter.current_horizon.tradition = "HERMENEUTIC"
    /\ Len(interpreter.current_horizon.fusion_history) > 0
    /\ \E b \in interpreter.current_horizon.pre_understandings :
            ContainsWord(b, "always")
    /\ interpreter.hermeneutic_circles[MaxCircles].hypothesis_id = "h1"
    /\ interpreter.hermeneutic_circles[MaxCircles].coherence_score = Rat(2, 5)
    /\ ~interpreter.hermeneutic_circles[MaxCircles].circle_complete

\* C19: after any sequence of trade_hypothesis calls the market sentiment is
\* in [0, 1]; a trade priced above 100 raises it by 0.05 capped at 1.0, one
\* priced below 30 lowers it by 0.03 floored at 0.0, any other leaves it
\* unchanged; and each trade appends exactly one entry to trading_history
\* and leaves the earlier entries as they were.
C19_SentimentBoundedHistoryAppendOnly ==
    /\ [](/\ ~RLess(market.market_sentiment, RZero)
          /\ ~RLess(ROne, market.market_sentiment))
    /\ [][market' # market =>
            LET before == market.trading_history
                after == market'.trading_history
                price == after[Len(after)].price
                raised == RAdd(market.market_sentiment, Rat(1, 20))
                lowered == RAdd(market.market_sentiment, Rat(-3, 100))
            IN  /\ Len(after) = Len(before) + 1
                /\ SubSeq(after, 1, Len(before)) = before
                /\ market'.market_sentiment =
                      IF price > 100
                      THEN (IF RLess(ROne, raised) THEN ROne ELSE raised)
                      ELSE IF price < 30
                      THEN (IF RLess(lowered, RZero) THEN RZero ELSE lowered)
                      ELSE market.market_sentiment]_vars

C19_Witness ==
    /\ mlast.op = "trade_hypothesis"
    /\ Len(market.trading_history) = MaxTrades
    /\ market.trading_history[MaxTrades].price < 30
    /\ market.trading_history[MaxTrades].market_sentiment = RZero
    /\ market.market_sentiment = RZero
    /\ market.trading_history[1].market_sentiment = Rat(1, 2)

\* C20: after any sequence of add_entry calls verify_chain returns true: the
\* first block's prev_hash is 64 zeros, every later block's prev_hash is the
\* block_hash of the block before it, and every stored block_hash is the
\* hash recomputed from its prev_hash, merkle_root and timestamp.
C20_ChainVerifies ==
    /\ llast.op = "verify_chain" => llast.result = TRUE
    /\ \A i \in DOMAIN ledger :
          /\ i = 1 => ledger[i].prev_hash = ZeroHash
          /\ i > 1 => ledger[i].prev_hash = ledger[i - 1].block_hash
          /\ ledger[i].block_hash =
                compute_hash(<<ledger[i].prev_hash, ledger[i].merkle_root,
                               ledger[i].timestamp>>)

C20_Witness ==
    /\ llast.op = "verify_chain"
    /\ llast.result = TRUE
    /\ Len(ledger) = MaxBlocks
    /\ ledger[1].block_hash # ledger[2].block_hash
    /\ ledger[2].timestamp = ledger[3].timestamp

\* C21: in each round of evolutionary pressure on a population of at least
\* two agents, the two agents of highest fitness each produce exactly one
\* offspring, whatever the population size.
C21_TopTwoReproduce ==
    (round.gen >= 0 /\ Len(round.before) >= 2) =>
        /\ Len(round.born) = 2
        /\ \A k \in 1..2 :
              SubSeq(round.born[k], 1, Len(round.born[k]) - 2)
                  = Ranking(round.before, heap)[k][1]

\* C22: paradigm_ecology[p] is the number of agents of the ecosystem whose
\* active paradigms include p, in every reachable state.
C22_EcologyCountsAdherents ==
    \A p \in ScientificParadigm :
        EcologyGet(paradigm_ecology, p)
            = Cardinality({i \in DOMAIN agents : p \in agents[i].active_paradigms})

\* C28: every active paradigm of every agent of the ecosystem has an entry
\* in that agent's paradigm_lenses, offspring and switched agents included.
C28_ActiveParadigmsHaveLenses ==
    \A i \in DOMAIN agents : agents[i].active_paradigms \subseteq paradigm_lenses

\* C29: add_agent never replaces an existing agent: the id it assigns is not
\* a key of the agent map, the population grows by exactly one per call and
\* the agents already there stay as they were, also after a round of
\* evolutionary pressure has removed agents.
C29_AddAgentNeverReplaces ==
    [][added' = added + 1 =>
          /\ Len(agents') = Len(agents) + 1
          /\ SubSeq(agents', 1, Len(agents)) = agents
          /\ ~HasAgent(agents, agents'[Len(agents')].id)]_vars

C29_Witness ==
    /\ pc = "done"
    /\ round.removed # {}
    /\ Len(agents) = round.after + 1
    /\ agents[Len(agents)].id = <<round.after>>
    /\ \A i \in 1..round.after : agents[i].id # <<round.after>>

\* C30: a round of evolutionary pressure leaves the population at least as
\* large as it found it; when it removes agents it has added two offspring;
\* it removes no offspring of that round; and no step of a run makes the
\* population smaller.
C30_PopulationNeverShrinks ==
    /\ [](round.gen >= 0 =>
            /\ round.after >= Len(round.before)
            /\ round.removed # {} => Len(round.born) = 2
            /\ \A k \in DOMAIN round.born : round.born[k] \notin round.removed
            /\ pc = "record" => \A k \in DOMAIN round.born : HasAgent(agents, round.born[k]))
    /\ [][Len(agents') >= Len(agents)]_vars

C30_Witness ==
    /\ pc = "record"
    /\ round.gen = gen
    /\ Cardinality(round.removed) = 2
    /\ round.after = Len(round.before)
    /\ Len(agents) = round.after
    /\ \A k \in DOMAIN round.born : HasAgent(agents, round.born[k])

\* the last record of a decoherence history
LastEvent(history) == history[Len(history)]

\* the amplitudes after the target was scaled and the superposition
\* renormalised, before any propagation (quantum.py:128-138)
AfterTargetUpdate(sup, h, strength) ==
    normalize_superposition([sup EXCEPT ![h].prob = RMul(@, Square(EvidenceFactor(strength)))])

\* C24: apply_evidence multiplies the amplitude of each hypothesis entangled
\* with the target by (1 + 0.2*strength) exactly once, also when the pair
\* was entangled more than once; re-entangling a linked pair adds no second
\* link.
C24_NeighbourScaledOnce ==
    [][(qlast'.op = "apply_evidence" /\ qlast'.hit
            /\ Len(decoherence_history') = Len(decoherence_history) + 1) =>
          LET event == LastEvent(decoherence_history')
              h == event.hypothesis_id
              links == hypothesis_superpositions[h].links
              mid == AfterTargetUpdate(hypothesis_superpositions, h, event.evidence_strength)
          IN  /\ \A i, j \in DOMAIN links :
                    (links[i] = links[j] /\ links[i] # h) => i = j
              /\ \A e \in {links[i] : i \in DOMAIN links} \ {h} :
                    hypothesis_superpositions'[e].prob =
                        RMul(mid[e].prob, Square(NeighbourFactor(event.evidence_strength)))]_vars

\* C26: each apply_evidence on a registered hypothesis appends exactly one
\* record to decoherence_history, and the record's pre_amplitude is the
\* amplitude the hypothesis had before this evidence was applied.
C26_PreAmplitudeIsPrior ==
    [][(qlast'.op = "apply_evidence" /\ qlast'.hit) =>
          /\ Len(decoherence_history') = Len(decoherence_history) + 1
          /\ SubSeq(decoherence_history', 1, Len(decoherence_history)) = decoherence_history
          /\ LastEvent(decoherence_history').pre_amplitude =
                hypothesis_superpositions[LastEvent(decoherence_history').hypothesis_id].prob]_vars

\* C23: every meta-hypothesis the meta-learning phase generates is in the
\* agent's knowledge base after meta_scientific_learning.
C23_MetaHypothesesInKnowledgeBase ==
    alast.op = "meta_scientific_learning" =>
        alast.meta_hypotheses \subseteq agent.knowledge_base

\* C25: meta-learning lowers or keeps novelty_preference when the success
\* rate is below 0.3 and raises or keeps it when the rate is above 0.7, for
\* every parameter value an agent can reach, offspring values included.
C25_NoveltyMovesInStatedDirection ==
    [][alast'.op = "meta_scientific_learning" =>
          /\ RLess(alast'.hypothesis_success_rate, Rat(3, 10)) =>
                ~RLess(agent.novelty_preference, agent'.novelty_preference)
          /\ RLess(Rat(7, 10), alast'.hypothesis_success_rate) =>
                ~RLess(agent'.novelty_preference, agent.novelty_preference)]_vars

\* C27: every hermeneutic circle, whatever the horizon's paradigm and the
\* hypothesis, finds no contradictions, reports the revised hypothesis as
\* "unchanged", scores coherence 0.4 and is not complete; so the hypothesis
\* leaves hermeneutic_data_interpretation with the confidence it came with.
C27_CircleNeverRevises ==
    /\ \A i \in DOMAIN interpreter.hermeneutic_circles :
          LET circle == interpreter.hermeneutic_circles[i]
          IN  /\ circle.contradictions_found = {}
              /\ circle.revised_hypothesis = <<"unchanged">>
              /\ circle.coherence_score = Rat(2, 5)
              /\ ~circle.circle_complete
    /\ ilast.op = "hermeneutic_data_interpretation" =>
          ilast.confidence = ilast.hypothesis.confidence

\* the phase has run on a hypothesis whose statement is an absolute bias of
\* the falsificationist horizon of its interpreter
C27_Witness ==
    /\ ilast.op = "hermeneutic_data_interpretation"
    /\ interpreter.current_horizon.tradition = "FALSIFICATIONISM"
    /\ ilast.hypothesis.statement \in interpreter.current_horizon.pre_understandings
    /\ ContainsWord(ilast.hypothesis.statement, "always")
    /\ Len(interpreter.hermeneutic_circles) = MaxCircles

====
